---- MODULE Spec2Model ----
(***************************************************************************)
(* pi-planner: the plan store (src/src/persistence/plan-store.ts).         *)
(*                                                                         *)
(* Several PlanStore instances (processes) share one plan directory.  Each *)
(* asynchronous method of a store is a sequence of steps, one per awaited  *)
(* filesystem call; the steps of different stores interleave freely.       *)
(***************************************************************************)
EXTENDS Integers, Sequences, FiniteSets, TLC

\* ------------------------------------------------------------------ bounds
\* Number of store calls (create/get/list/update/delete) started in a run.
MaxOps == 2
\* Largest value of the millisecond clock.
MaxNow == 1
\* Number of invalidateCache() calls in a run.
MaxInv == 1
\* Number of steps of a plan.
NSteps == 2
\* Start-execution requests, plan_run_script reports, /plans operations,
\* updates by another process and session_start events in a run.
MaxStarts == 2
MaxReports == 2
MaxUserOps == 1
MaxOtherOps == 1
MaxSessions == 1
\* Largest configured executor timeout (in clock units).
MaxTimeout == 1
\* Longest checkpoint file whose reading is examined, in lines.
MaxLines == 3
MaxRequests == 3
\* Versions, required / available tools and plans given to the pure functions.
MaxVersion == 2
MaxTools == 2
MaxPlans == 2
\* Longest bash command given to isSafeBashCommand, in words.
MaxWords == 3

\* ------------------------------------------------------------------- values
Stores == {"A", "B"}
PlanIds == {"P1", "P2"}
Times == 0 .. MaxNow

PlanStatus ==
  {"proposed", "approved", "executing", "completed", "failed", "rejected",
   "cancelled", "stalled"}

\* A path without a file (readFile/unlink/rename fail with ENOENT).
NoFile == [file |-> "absent"]
\* A file that writeFile has opened (O_CREAT|O_TRUNC) but not yet written.
Truncated == [file |-> "truncated"]
\* cache.get(id) of an absent key / get() returning null.
NoPlan == [plan |-> "null"]

\* An optional field is the set of its values: {} when undefined, {v} when v.
\* The plan fields: status, version, updated_at, execution_started_at,
\* result_summary and scripts (one entry per step).
MkPlan(st, v, t) ==
  [status |-> st, version |-> v, updated_at |-> t, execution_started_at |-> {},
   result_summary |-> {}, scripts |-> {}]

\* The frontmatter lines the store writes for a plan; an optional line is
\* written when the field is set.  plan.scripts is not written at all.
serializePlan(p) ==
  [fm_status |-> p.status, fm_version |-> p.version, fm_updated_at |-> p.updated_at,
   fm_execution_started_at |-> p.execution_started_at,
   fm_result_summary |-> p.result_summary]

\* TRUE when parsePlan(content) throws "Invalid plan file: no frontmatter".
parseThrows(content) == content = Truncated

\* parsePlan(): the fields come from the frontmatter; no scripts are read.
parsePlan(content) ==
  [status |-> content.fm_status, version |-> content.fm_version,
   updated_at |-> content.fm_updated_at,
   execution_started_at |-> content.fm_execution_started_at,
   result_summary |-> content.fm_result_summary, scripts |-> {}]

\* The mutators handed to update(): the six named transitions of the store,
\* and the three the extension passes to update() itself (stalled marking on
\* session_start, Retry, and the scripts bookkeeping of an execution).
Kinds ==
  {"approve", "reject", "cancel", "markExecuting", "markCompleted",
   "markFailed", "stall", "retry", "scripts"}

\* The mutators drawn when calls of different stores overlap.
OverlapKinds == {"approve", "cancel", "markExecuting", "scripts"}

\* Mutators of which markExecuting has lost its status test.
updaterAcceptsUnchecked(kind, status) ==
  CASE kind = "approve" -> status = "proposed"
    [] kind = "reject" -> status = "proposed"
    [] OTHER -> TRUE

\* The status check at the head of a mutator; FALSE means the mutator throws.
updaterAccepts(kind, status) ==
  CASE kind = "approve" -> status = "proposed"
    [] kind = "reject" -> status = "proposed"
    [] kind = "markExecuting" -> status = "approved"
    [] OTHER -> TRUE

\* The status a mutator assigns.
updaterStatus(kind, status) ==
  CASE kind = "approve" -> "approved"
    [] kind = "reject" -> "rejected"
    [] kind = "cancel" -> "cancelled"
    [] kind = "markExecuting" -> "executing"
    [] kind = "markCompleted" -> "completed"
    [] kind = "markFailed" -> "failed"
    [] kind = "stall" -> "stalled"
    [] kind = "retry" -> "approved"
    [] OTHER -> status

\* A mutator with its arguments: the step (1-based, as reported) and the
\* summary; Call(kind) is a mutator that takes none.
Call(kind) == [kind |-> kind, step |-> 1, summary |-> "summary"]

\* executePlan(): plan.steps.map(... status: "pending").
pendingScripts == [i \in 1 .. NSteps |-> [status |-> "pending", summary |-> {}, error |-> {}]]

\* The scripts array after a step mutator: "if (p.scripts && p.scripts[stepIdx])"
\* sets the entry's status and its summary (step_complete) or error
\* (step_failed).
reportedScripts(u, scripts) ==
  IF scripts = {} THEN scripts
  ELSE LET a == CHOOSE x \in scripts : TRUE IN
       IF u.step \notin DOMAIN a THEN scripts
       ELSE IF u.kind = "step_complete"
       THEN {[a EXCEPT ![u.step].status = "success", ![u.step].summary = {u.summary}]}
       ELSE {[a EXCEPT ![u.step].status = "failed", ![u.step].error = {u.summary}]}

\* updater(plan): what the mutator u assigns besides the status.
updaterFields(u, p, t) ==
  CASE u.kind = "markExecuting" -> [p EXCEPT !.execution_started_at = {t}]
    [] u.kind \in {"markCompleted", "markFailed"} -> [p EXCEPT !.result_summary = {u.summary}]
    [] u.kind = "retry" ->
         [p EXCEPT !.result_summary = {}, !.execution_started_at = {}, !.scripts = {}]
    [] u.kind = "scripts" -> [p EXCEPT !.scripts = {pendingScripts}]
    [] u.kind \in {"step_complete", "step_failed"} ->
         [p EXCEPT !.scripts = reportedScripts(u, p.scripts)]
    [] OTHER -> p

\* update(): updater(plan); plan.version++; plan.updated_at = new Date().
applyUpdater(u, p, t) ==
  [updaterFields(u, p, t) EXCEPT !.status = updaterStatus(u.kind, p.status),
                                 !.version = p.version + 1, !.updated_at = t]

\* An update that forgets plan.version++.
applyUpdateNoIncrement(kind, p, t) ==
  [applyUpdater(Call(kind), p, t) EXCEPT !.version = p.version]

\* update() with one of the mutators that take no argument.
applyUpdate(kind, p, t) == applyUpdater(Call(kind), p, t)

\* ---------------------------------------------------------------- variables
VARIABLES
  disk,         \* plan directory: PLAN-<id>.md, by id
  tmps,         \* plan directory: PLAN-<id>.md.tmp-<ms>, by <<id, ms>>
  cache,        \* per store: the cache Map
  cacheLoaded,  \* per store: the cacheLoaded flag
  task,         \* per store: the call in flight and where it stands
  last,         \* the call that returned last, and how
  now,          \* the millisecond clock (Date.now())
  ops,          \* calls started so far
  used,         \* plan ids handed out so far
  invalidated,  \* per store: invalidateCache() ran and no call started since
  invs,         \* invalidateCache() calls so far
  executionState, \* the extension's execution slot (null, or the active state)
  log,          \* sessions directory: PLAN-<id>.jsonl, by id
  starts,       \* per requester: the startExecution call in flight
  sess,         \* the session_start handler in flight
  lastx,        \* what the extension's last request returned
  marked,       \* plans this process has marked executing
  timeout,      \* config.executor_timeout_minutes
  xops,         \* extension requests so far, by sort
  readOut,      \* what readCheckpoint / countCompletedSteps returned last
  pure,         \* the last call of a pure function: its arguments and result
  doc,          \* one plan file, as the text serializePlan writes
  given,        \* the input create() was called with for that file
  planMode,     \* the extension's planMode flag
  allToolNames, \* the snapshot applyMode keeps while in plan mode (undefined: {})
  activeTools,  \* pi's active tool set (getActiveTools / setActiveTools)
  entered,      \* the active tool set when plan mode was entered last
  registry,     \* the safety registry: patterns with their levels
  decision      \* what the tool_call hook returned last

\* The variables of the extension (the store's are the ones above them).
execVars ==
  <<executionState, log, starts, sess, lastx, marked, timeout, xops, readOut>>

\* The variables of the pure calls, the plan text and the mode hooks.
auxVars ==
  <<pure, doc, given, planMode, allToolNames, activeTools, entered, registry,
    decision>>

vars ==
  <<disk, tmps, cache, cacheLoaded, task, last, now, ops, used, invalidated,
    invs, executionState, log, starts, sess, lastx, marked, timeout, xops,
    readOut, pure, doc, given, planMode, allToolNames, activeTools, entered,
    registry, decision>>

\* No call in flight.
Idle ==
  [op |-> "none", pc |-> "idle", id |-> "P1", kind |-> "none",
   first |-> NoPlan, plan |-> NoPlan, t |-> 0, todo |-> {},
   fresh |-> FALSE, stable |-> FALSE]

NoCall ==
  [n |-> 0, s |-> "A", op |-> "none", id |-> "P1", kind |-> "none",
   res |-> "none", expected |-> 0, found |-> 0]

\* Store s has no call in flight and may start one.
CanStart(s) == task[s] = Idle /\ ops < MaxOps

\* No other store has a call in flight.
Alone(s) == \A o \in Stores \ {s} : task[o] = Idle

\* The record of a call that store s starts now.
Begin(s, op, id) ==
  [Idle EXCEPT !.op = op, !.pc = "run", !.id = id, !.stable = TRUE,
               !.fresh = invalidated[s] /\ op \in {"get", "list"}]

\* The calls in flight have seen the directory change.
Disturbed(tk) ==
  [o \in Stores |-> IF tk[o] = Idle THEN Idle ELSE [tk[o] EXCEPT !.stable = FALSE]]

\* The call rec of store s returns (res = "ok") or throws (any other res).
Return(s, rec, res) ==
  [n |-> last.n + 1, s |-> s, op |-> rec.op, id |-> rec.id, kind |-> rec.kind,
   res |-> res, expected |-> 0, found |-> 0]

EmptyCache == [i \in PlanIds |-> NoPlan]

\* A directory that holds plan P1 (proposed, or approved) and perhaps a second
\* proposed plan P2, and two stores constructed on it; store B may have
\* loaded its cache from that directory already (a list() call).
InitBase ==
  /\ \E d \in {MkPlan("proposed", 1, 0), MkPlan("approved", 2, 0)},
        e \in {NoFile, serializePlan(MkPlan("proposed", 1, 0))}, warm \in BOOLEAN :
       /\ disk = [i \in PlanIds |-> IF i = "P1" THEN serializePlan(d) ELSE e]
       /\ used = IF e = NoFile THEN {"P1"} ELSE PlanIds
       /\ cacheLoaded = [s \in Stores |-> s = "B" /\ warm]
       /\ cache = [s \in Stores |->
                    IF s = "B" /\ warm
                    THEN [i \in PlanIds |-> IF i = "P1" THEN d
                                            ELSE IF e = NoFile THEN NoPlan
                                            ELSE parsePlan(e)]
                    ELSE EmptyCache]
  /\ tmps = [x \in PlanIds \X Times |-> NoFile]
  /\ task = [s \in Stores |-> Idle]
  /\ last = NoCall
  /\ now = 0
  /\ ops = 0
  /\ invalidated = [s \in Stores |-> FALSE]
  /\ invs = 0

\* ------------------------------------------------------- extension values
\* The PlanStore of the extension's process, and that of another process.
Own == "A"
Other == "B"
\* Who asks for an execution: the plan_approve tool, the /plan(s) commands.
Requesters == {"tool", "command"}
Summaries == {"s1", "s2"}

\* executionState = null.
NoExec == [planId |-> "null", done |-> FALSE, ok |-> FALSE]
\* No startExecution call in flight.
StartIdle == [pc |-> "idle", id |-> "P1", plan |-> NoPlan, toolsOk |-> FALSE]
\* No session_start handler in flight.
SessIdle == [pc |-> "idle", todo |-> {}]
NoRequest == [op |-> "none", id |-> "P1", res |-> "none"]
NoCounts == [start |-> 0, report |-> 0, user |-> 0, other |-> 0, session |-> 0]
\* A checkpoint file that does not exist.
NoLog == [exists |-> FALSE, lines |-> <<>>]
NoRead == [of |-> "none", steps |-> <<>>, count |-> 0]

\* The extension at rest.
ExecAtRest ==
  /\ executionState = NoExec
  /\ log = [i \in PlanIds |-> NoLog]
  /\ starts = [r \in Requesters |-> StartIdle]
  /\ sess = SessIdle
  /\ lastx = NoRequest
  /\ marked = {}
  /\ timeout = 0
  /\ xops = NoCounts
  /\ readOut = NoRead

\* Values of the variables above before anything was called.
NoPure == [fn |-> "none"]
NoDoc == <<>>
NoInput == [input |-> "none"]
NoDecision == [tool |-> "none"]
AllTools == {"read", "bash", "write", "edit", "todo", "plan_mode"}

\* No pure call made, no plan text, normal mode with every tool active.
AuxAtRest ==
  /\ pure = NoPure
  /\ doc = NoDoc
  /\ given = NoInput
  /\ planMode = FALSE
  /\ allToolNames = {}
  /\ activeTools = AllTools
  /\ entered = AllTools
  /\ registry = {}
  /\ decision = NoDecision

Init == InitBase /\ ExecAtRest /\ AuxAtRest

\* ------------------------------------------------------------------- create
\* create(): the id drawn (crypto.randomBytes(4), whatever the directory
\* holds), plan object, ensureDir, then writeFile opens the file.
CreateOpen(s, id) ==
  /\ CanStart(s)
  /\ disk' = [disk EXCEPT ![id] = Truncated]
  /\ task' = [Disturbed(task) EXCEPT ![s] =
                [Begin(s, "create", id) EXCEPT !.pc = "open", !.stable = FALSE,
                                              !.plan = MkPlan("proposed", 1, now)]]
  /\ used' = used \cup {id}
  /\ ops' = ops + 1
  /\ invalidated' = [invalidated EXCEPT ![s] = FALSE]
  /\ UNCHANGED execVars
  /\ UNCHANGED auxVars
  /\ UNCHANGED <<tmps, cache, cacheLoaded, last, now, invs>>

\* create(): writeFile writes the content; then cache.set(id, plan).
CreateWrite(s) ==
  /\ task[s].pc = "open"
  /\ disk' = [disk EXCEPT ![task[s].id] = serializePlan(task[s].plan)]
  /\ cache' = [cache EXCEPT ![s][task[s].id] = task[s].plan]
  /\ task' = [Disturbed(task) EXCEPT ![s] = Idle]
  /\ last' = Return(s, task[s], "ok")
  /\ UNCHANGED execVars
  /\ UNCHANGED auxVars
  /\ UNCHANGED <<tmps, cacheLoaded, now, ops, used, invalidated, invs>>

\* ------------------------------------------------------------------- update
\* A store that trusts its cache: the cached plan when there is one.
readCurrentFromCache(s, id) ==
  IF cache[s][id] # NoPlan THEN serializePlan(cache[s][id]) ELSE disk[id]

\* update(): "Read current state from disk (not cache -- for optimistic lock)".
readCurrent(s, id) == disk[id]

\* update(): first readFile + parsePlan, updater, version++, updated_at, and
\* the temp path (Date.now()) -- all in the turn in which the read resolves.
UpdateRead(s, id, kind) ==
  /\ CanStart(s)
  /\ LET rec == [Begin(s, "update", id) EXCEPT !.kind = kind]
         content == readCurrent(s, id)
     IN
       IF content = NoFile THEN
         /\ last' = Return(s, rec, "NotFound")
         /\ UNCHANGED task
       ELSE IF parseThrows(content) THEN
         /\ last' = Return(s, rec, "ParseError")
         /\ UNCHANGED task
       ELSE IF ~updaterAccepts(kind, parsePlan(content).status) THEN
         /\ last' = Return(s, rec, "InvalidTransition")
         /\ UNCHANGED task
       ELSE
         /\ task' = [task EXCEPT ![s] =
                       [rec EXCEPT !.pc = "tmp", !.first = parsePlan(content), !.t = now,
                                   !.plan = applyUpdate(kind, parsePlan(content), now)]]
         /\ UNCHANGED last
  /\ ops' = ops + 1
  /\ invalidated' = [invalidated EXCEPT ![s] = FALSE]
  /\ UNCHANGED execVars
  /\ UNCHANGED auxVars
  /\ UNCHANGED <<disk, tmps, cache, cacheLoaded, now, used, invs>>

\* update(): writeFile(tmpPath, serializePlan(plan)).
UpdateWriteTmp(s) ==
  /\ task[s].pc = "tmp"
  /\ tmps' = [tmps EXCEPT ![<<task[s].id, task[s].t>>] = serializePlan(task[s].plan)]
  /\ task' = [task EXCEPT ![s].pc = "check"]
  /\ UNCHANGED execVars
  /\ UNCHANGED auxVars
  /\ UNCHANGED <<disk, cache, cacheLoaded, last, now, ops, used, invalidated, invs>>

\* An update that waits for the file to show the version it read again
\* instead of giving up.
UpdateCheckWaits(s) ==
  /\ task[s].pc = "check"
  /\ LET cur == disk[task[s].id] IN
       IF cur = NoFile THEN
         /\ last' = Return(s, task[s], "NotFound")
         /\ task' = [task EXCEPT ![s] = Idle]
       ELSE IF parseThrows(cur) THEN
         /\ last' = Return(s, task[s], "ParseError")
         /\ task' = [task EXCEPT ![s] = Idle]
       ELSE IF parsePlan(cur).version # task[s].first.version THEN
         /\ UNCHANGED <<task, last>>
       ELSE
         /\ task' = [task EXCEPT ![s].pc = "rename"]
         /\ UNCHANGED last
  /\ UNCHANGED execVars
  /\ UNCHANGED auxVars
  /\ UNCHANGED <<disk, tmps, cache, cacheLoaded, now, ops, used, invalidated, invs>>

\* update(): the second readFile + parsePlan and the version comparison.
UpdateCheck(s) ==
  /\ task[s].pc = "check"
  /\ LET cur == disk[task[s].id] IN
       IF cur = NoFile THEN
         /\ last' = Return(s, task[s], "NotFound")
         /\ task' = [task EXCEPT ![s] = Idle]
       ELSE IF parseThrows(cur) THEN
         /\ last' = Return(s, task[s], "ParseError")
         /\ task' = [task EXCEPT ![s] = Idle]
       ELSE IF parsePlan(cur).version # task[s].first.version THEN
         /\ task' = [task EXCEPT ![s].pc = "unlink", ![s].plan = parsePlan(cur)]
         /\ UNCHANGED last
       ELSE
         /\ task' = [task EXCEPT ![s].pc = "rename"]
         /\ UNCHANGED last
  /\ UNCHANGED execVars
  /\ UNCHANGED auxVars
  /\ UNCHANGED <<disk, tmps, cache, cacheLoaded, now, ops, used, invalidated, invs>>

\* update(): unlink(tmpPath).catch(() => {}), then the error "modified
\* concurrently (expected v<expectedVersion>, found v<current.version>)".
UpdateUnlink(s) ==
  /\ task[s].pc = "unlink"
  /\ tmps' = [tmps EXCEPT ![<<task[s].id, task[s].t>>] = NoFile]
  /\ last' = [Return(s, task[s], "VersionConflict") EXCEPT
                !.expected = task[s].first.version, !.found = task[s].plan.version]
  /\ task' = [task EXCEPT ![s] = Idle]
  /\ UNCHANGED execVars
  /\ UNCHANGED auxVars
  /\ UNCHANGED <<disk, cache, cacheLoaded, now, ops, used, invalidated, invs>>

\* update(): rename(tmpPath, filePath), then cache.set(id, plan).
UpdateRename(s) ==
  /\ task[s].pc = "rename"
  /\ LET tp == <<task[s].id, task[s].t>> IN
     IF tmps[tp] = NoFile
     THEN /\ last' = Return(s, task[s], "IOError")
          /\ task' = [task EXCEPT ![s] = Idle]
          /\ UNCHANGED <<disk, tmps, cache>>
     ELSE /\ disk' = [disk EXCEPT ![task[s].id] = tmps[tp]]
          /\ tmps' = [tmps EXCEPT ![tp] = NoFile]
          /\ cache' = [cache EXCEPT ![s][task[s].id] = task[s].plan]
          /\ last' = Return(s, task[s], "ok")
          /\ task' = [Disturbed(task) EXCEPT ![s] = Idle]
  /\ UNCHANGED execVars
  /\ UNCHANGED auxVars
  /\ UNCHANGED <<cacheLoaded, now, ops, used, invalidated, invs>>

\* ---------------------------------------------------------------- loadCache
\* What the caller of loadCache() does once it has resolved: get and list
\* return from the cache, delete goes on to its checks.
AfterLoad(s, rec) ==
  IF rec.op \in {"get", "list"}
  THEN /\ task' = [task EXCEPT ![s] = Idle]
       /\ last' = Return(s, rec, "ok")
  ELSE /\ task' = [task EXCEPT ![s] = [rec EXCEPT !.pc = "del", !.todo = {}]]
       /\ UNCHANGED last

\* loadCache() entered by the call rec of store s: returns at once when
\* cacheLoaded; otherwise ensureDir + readdir (the PLAN-*.md names; temp
\* files end in .tmp-<ms> and are passed over).
LoadCache(s, rec) ==
  LET files == {i \in PlanIds : disk[i] # NoFile} IN
  IF cacheLoaded[s] THEN
    /\ AfterLoad(s, rec)
    /\ UNCHANGED cacheLoaded
  ELSE IF files = {} THEN
    /\ AfterLoad(s, rec)
    /\ cacheLoaded' = [cacheLoaded EXCEPT ![s] = TRUE]
  ELSE
    /\ task' = [task EXCEPT ![s] = [rec EXCEPT !.pc = "load", !.todo = files]]
    /\ UNCHANGED <<cacheLoaded, last>>

\* loadCache(): readFile + parsePlan of one listed file; an unreadable or
\* unparseable file is skipped.  After the last file: cacheLoaded = true.
LoadReadFile(s, id) ==
  /\ task[s].pc = "load"
  /\ id \in task[s].todo
  /\ LET skip == disk[id] = NoFile \/ parseThrows(disk[id])
         rest == task[s].todo \ {id}
     IN /\ cache' = [cache EXCEPT ![s] =
                       IF skip THEN @ ELSE [@ EXCEPT ![id] = parsePlan(disk[id])]]
        /\ IF rest = {}
           THEN /\ cacheLoaded' = [cacheLoaded EXCEPT ![s] = TRUE]
                /\ AfterLoad(s, task[s])
           ELSE /\ task' = [task EXCEPT ![s].todo = rest]
                /\ UNCHANGED <<cacheLoaded, last>>
  /\ UNCHANGED execVars
  /\ UNCHANGED auxVars
  /\ UNCHANGED <<disk, tmps, now, ops, used, invalidated, invs>>

\* ----------------------------------------------------------------- get, list
\* get(id): a cache hit returns the cached plan; a miss goes through
\* loadCache and returns cache.get(id) ?? null.
Get(s, id) ==
  /\ CanStart(s)
  /\ IF cache[s][id] # NoPlan
     THEN /\ last' = Return(s, Begin(s, "get", id), "ok")
          /\ UNCHANGED <<task, cacheLoaded>>
     ELSE LoadCache(s, Begin(s, "get", id))
  /\ ops' = ops + 1
  /\ invalidated' = [invalidated EXCEPT ![s] = FALSE]
  /\ UNCHANGED execVars
  /\ UNCHANGED auxVars
  /\ UNCHANGED <<disk, tmps, cache, now, used, invs>>

\* list(): loadCache, then the cache's values.
List(s) ==
  /\ CanStart(s)
  /\ LoadCache(s, Begin(s, "list", "P1"))
  /\ ops' = ops + 1
  /\ invalidated' = [invalidated EXCEPT ![s] = FALSE]
  /\ UNCHANGED execVars
  /\ UNCHANGED auxVars
  /\ UNCHANGED <<disk, tmps, cache, now, used, invs>>

\* What get(id) of store s returns when it returns now.
getResult(s, id) == cache[s][id]

\* list() with an entry for every file name, parsed or not.
listResultEveryFile(s) == {<<i, cache[s][i]>> : i \in PlanIds}

\* What list() of store s returns when it returns now (as a set of <<id, plan>>).
listResult(s) == {<<i, cache[s][i]>> : i \in {j \in PlanIds : cache[s][j] # NoPlan}}

\* ------------------------------------------------------------------- delete
\* delete(id): loadCache first.
DeleteLoad(s, id) ==
  /\ CanStart(s)
  /\ LoadCache(s, Begin(s, "delete", id))
  /\ ops' = ops + 1
  /\ invalidated' = [invalidated EXCEPT ![s] = FALSE]
  /\ UNCHANGED execVars
  /\ UNCHANGED auxVars
  /\ UNCHANGED <<disk, tmps, cache, now, used, invs>>

\* The plan whose status delete() tests before it unlinks.
deletePlan(s, id) == cache[s][id]

\* delete(id): the plan found decides; then unlink and cache.delete.
DeleteUnlink(s) ==
  /\ task[s].pc = "del"
  /\ LET id == task[s].id IN
     IF deletePlan(s, id) = NoPlan THEN
       /\ last' = Return(s, task[s], "NotFound")
       /\ task' = [task EXCEPT ![s] = Idle]
       /\ UNCHANGED <<disk, cache>>
     ELSE IF deletePlan(s, id).status = "executing" THEN
       /\ last' = Return(s, task[s], "InvalidState")
       /\ task' = [task EXCEPT ![s] = Idle]
       /\ UNCHANGED <<disk, cache>>
     ELSE IF disk[id] = NoFile THEN
       /\ last' = Return(s, task[s], "NotFound")
       /\ task' = [task EXCEPT ![s] = Idle]
       /\ UNCHANGED <<disk, cache>>
     ELSE
       /\ disk' = [disk EXCEPT ![id] = NoFile]
       /\ cache' = [cache EXCEPT ![s][id] = NoPlan]
       /\ last' = Return(s, task[s], "ok")
       /\ task' = [Disturbed(task) EXCEPT ![s] = Idle]
  /\ UNCHANGED execVars
  /\ UNCHANGED auxVars
  /\ UNCHANGED <<tmps, cacheLoaded, now, ops, used, invalidated, invs>>

\* ---------------------------------------------------------- invalidateCache
\* invalidateCache(): synchronous, so it runs between any two steps.  (On a
\* cache that is empty and not loaded it changes nothing.)
InvalidateCache(s) ==
  /\ cacheLoaded[s] \/ cache[s] # EmptyCache
  /\ invs < MaxInv
  /\ invs' = invs + 1
  /\ cache' = [cache EXCEPT ![s] = EmptyCache]
  /\ cacheLoaded' = [cacheLoaded EXCEPT ![s] = FALSE]
  /\ invalidated' = [invalidated EXCEPT ![s] = TRUE]
  /\ UNCHANGED execVars
  /\ UNCHANGED auxVars
  /\ UNCHANGED <<disk, tmps, task, last, now, ops, used>>

\* -------------------------------------------------------------------- clock
Tick ==
  /\ now < MaxNow
  /\ now' = now + 1
  /\ UNCHANGED execVars
  /\ UNCHANGED auxVars
  /\ UNCHANGED <<disk, tmps, cache, cacheLoaded, task, last, ops, used,
                 invalidated, invs>>

\* Calls of different stores overlap step by step.
Next ==
  \/ \E s \in Stores, id \in PlanIds : CreateOpen(s, id)
  \/ \E s \in Stores : CreateWrite(s)
  \/ \E s \in Stores, id \in used, kind \in OverlapKinds : UpdateRead(s, id, kind)
  \/ \E s \in Stores : UpdateWriteTmp(s)
  \/ \E s \in Stores : UpdateCheck(s)
  \/ \E s \in Stores : UpdateUnlink(s)
  \/ \E s \in Stores : UpdateRename(s)
  \/ \E s \in Stores, id \in PlanIds : LoadReadFile(s, id)
  \/ \E s \in Stores, id \in used : Get(s, id)
  \/ \E s \in Stores : List(s)
  \/ \E s \in Stores, id \in used : DeleteLoad(s, id)
  \/ \E s \in Stores : DeleteUnlink(s)
  \/ \E s \in Stores : InvalidateCache(s)
  \/ Tick

Spec == Init /\ [][Next]_vars

\* One call at a time: a call of one store runs to its return before any
\* store starts the next (so the version check of update() never fails and
\* its unlink branch is not taken).
NextSeq ==
  \/ \E s \in Stores, id \in PlanIds : Alone(s) /\ CreateOpen(s, id)
  \/ \E s \in Stores : Alone(s) /\ CreateWrite(s)
  \/ \E s \in Stores, id \in used, kind \in Kinds : Alone(s) /\ UpdateRead(s, id, kind)
  \/ \E s \in Stores : Alone(s) /\ UpdateWriteTmp(s)
  \/ \E s \in Stores : Alone(s) /\ UpdateCheck(s)
  \/ \E s \in Stores : Alone(s) /\ UpdateRename(s)
  \/ \E s \in Stores, id \in PlanIds : Alone(s) /\ LoadReadFile(s, id)
  \/ \E s \in Stores, id \in used : Alone(s) /\ Get(s, id)
  \/ \E s \in Stores : Alone(s) /\ List(s)
  \/ \E s \in Stores, id \in used : Alone(s) /\ DeleteLoad(s, id)
  \/ \E s \in Stores : Alone(s) /\ DeleteUnlink(s)
  \/ \E s \in Stores : Alone(s) /\ task[s] = Idle /\ InvalidateCache(s)
  \/ (\A s \in Stores : task[s] = Idle) /\ Tick

SpecSeq == Init /\ [][NextSeq]_vars

\* The step that resumes the call of store s when the filesystem call it
\* awaits has resolved.
Continue(s) ==
  \/ CreateWrite(s)
  \/ UpdateWriteTmp(s)
  \/ UpdateCheck(s)
  \/ UpdateUnlink(s)
  \/ UpdateRename(s)
  \/ \E id \in PlanIds : LoadReadFile(s, id)
  \/ DeleteUnlink(s)

\* Overlapping calls, where every filesystem call resolves and the event
\* loop of each process then runs the continuation that awaits it.
SpecLive == Spec /\ \A s \in Stores : WF_vars(Continue(s))

\* =============================================================== extension
\* The extension (activate) in one process: its store is store Own.  A store
\* call it awaits is taken as one step; the awaits of one handler are its
\* steps, and the steps of handlers in flight interleave.
StoreVars == <<tmps, task, last, ops, used, invalidated, invs>>

\* ---------------------------------------------------------- checkpoint log
\* JSON.stringify(entry) as a line of text, and a line that is not JSON.
stringify(entry) == [json |-> entry]
Malformed == [garbage |-> "not json"]
Blank == [blank |-> ""]

\* logStep: the StepCheckpoint the report handler builds.
StepEntry(idx, id, op, st, sm, t) ==
  IF st = "success"
  THEN [step |-> idx, tool |-> id, operation |-> op, status |-> st,
        result_summary |-> sm, timestamp |-> t]
  ELSE [step |-> idx, tool |-> id, operation |-> op, status |-> st,
        error |-> sm, timestamp |-> t]
\* logStart / logEnd: the entries they build.
StartEntry(id, t) == [type |-> "execution_start", plan_id |-> id, timestamp |-> t]
EndEntry(id, st, sm, t) ==
  [type |-> "execution_end", plan_id |-> id, status |-> st, summary |-> sm,
   timestamp |-> t]

\* A log call that replaces the file's content.
writeFileSync(file, entry) == [exists |-> TRUE, lines |-> <<stringify(entry)>>]

\* fs.appendFileSync(filePath, line + "\n"): creates the file when missing.
appendFileSync(file, entry) ==
  [exists |-> TRUE, lines |-> Append(file.lines, stringify(entry))]

\* ------------------------------------------------------ store calls, whole
\* What update(id, updater) writes and returns when it runs to its end with
\* no other call in between; NoPlan when it throws.
updated(s, id, u, t) ==
  LET content == readCurrent(s, id) IN
  IF content = NoFile \/ parseThrows(content) THEN NoPlan
  ELSE IF ~updaterAccepts(u.kind, parsePlan(content).status) THEN NoPlan
  ELSE applyUpdater(u, parsePlan(content), t)

\* update(id, updater) of store s whose cache map is c before the call.
StoreUpdateFrom(s, c, id, u) ==
  IF updated(s, id, u, now) = NoPlan
  THEN /\ disk' = disk
       /\ cache' = [cache EXCEPT ![s] = c]
  ELSE /\ disk' = [disk EXCEPT ![id] = serializePlan(updated(s, id, u, now))]
       /\ cache' = [cache EXCEPT ![s] = [c EXCEPT ![id] = updated(s, id, u, now)]]

StoreUpdate(s, id, u) == StoreUpdateFrom(s, cache[s], id, u)

\* The cache map of store s after loadCache().
loaded(s) ==
  IF cacheLoaded[s] THEN cache[s]
  ELSE [i \in PlanIds |->
          IF disk[i] = NoFile \/ parseThrows(disk[i]) THEN cache[s][i]
          ELSE parsePlan(disk[i])]

\* The cache map of store s after get(id), and what get(id) returns.
afterGet(s, id) == IF cache[s][id] # NoPlan THEN cache[s] ELSE loaded(s)
got(s, id) == afterGet(s, id)[id]

\* ------------------------------------------------------------------ modes
\* The tools plan mode leaves active.
PLAN_MODE_READONLY ==
  {"read", "bash", "grep", "find", "ls", "plan_propose", "plan_list", "plan_get",
   "plan_approve", "plan_reject", "plan_mode", "plan_skill_safety"}

\* getMode()
getMode(pm) == IF pm THEN "plan" ELSE "normal"

\* An applyMode that keeps its snapshot when it restores the tools.
applyModeKeepsSnapshot(pm, snapshot, active) ==
  IF pm
  THEN LET all == IF snapshot = {} THEN active ELSE CHOOSE S \in snapshot : TRUE
       IN [allToolNames |-> {all}, activeTools |-> all \cap PLAN_MODE_READONLY]
  ELSE IF snapshot # {}
  THEN [allToolNames |-> snapshot, activeTools |-> CHOOSE S \in snapshot : TRUE]
  ELSE [allToolNames |-> snapshot, activeTools |-> active]

\* applyMode() when planMode is pm, allToolNames is snapshot (the empty set
\* when undefined, else the set holding the tools) and pi.getActiveTools()
\* gives active: the new allToolNames and what setActiveTools is given.
applyMode(pm, snapshot, active) ==
  IF pm
  THEN LET all == IF snapshot = {} THEN active ELSE CHOOSE S \in snapshot : TRUE
       IN [allToolNames |-> {all}, activeTools |-> all \cap PLAN_MODE_READONLY]
  ELSE IF snapshot # {}
  THEN [allToolNames |-> {}, activeTools |-> CHOOSE S \in snapshot : TRUE]
  ELSE [allToolNames |-> snapshot, activeTools |-> active]

\* planMode becomes pm and applyMode runs; entered keeps the tools that were
\* active when plan mode was entered.
setMode(pm) ==
  /\ planMode' = pm
  /\ allToolNames' = applyMode(pm, allToolNames, activeTools).allToolNames
  /\ activeTools' = applyMode(pm, allToolNames, activeTools).activeTools
  /\ entered' = IF pm /\ ~planMode THEN activeTools ELSE entered

\* togglePlanMode(): planMode = !planMode, applyMode, persistState.
togglePlanMode == setMode(~planMode)

\* startExecution: "Exit plan mode if active -- execution needs full tools".
exitForExecution ==
  /\ planMode' = FALSE
  /\ activeTools' = IF planMode /\ allToolNames # {}
                    THEN CHOOSE S \in allToolNames : TRUE ELSE activeTools
  /\ allToolNames' = IF planMode THEN {} ELSE allToolNames
  /\ UNCHANGED entered

\* ---------------------------------------------------------- startExecution
\* A guard that finds the slot free whatever it holds.
slotAlwaysFree(es) == FALSE

\* The slot guard: "executionState && !executionState.done".
slotOccupied(es) == es # NoExec /\ ~es.done

\* A guard that lets every request through.
validatePreflightSkipped(plan, expectedVersion, toolsOk) == TRUE

\* validatePreflight(plan, expectedVersion, availableTools); toolsOk says
\* that every tool of plan.tools_required is among the available ones.
validatePreflight(plan, expectedVersion, toolsOk) ==
  /\ plan.status = "approved"
  /\ plan.version = expectedVersion
  /\ toolsOk

Count(sort) == [xops EXCEPT ![sort] = @ + 1]

\* The requests made so far, and whether one more of a sort is within bounds.
Requests == xops.start + xops.report + xops.user + xops.other + xops.session

Within(sort, max) == xops[sort] < max /\ Requests < MaxRequests

\* startExecution(planId): the slot guard, then "await s.get(planId)".
StartExecution(r, id, toolsOk) ==
  /\ starts[r] = StartIdle
  /\ Within("start", MaxStarts)
  /\ xops' = Count("start")
  /\ IF slotOccupied(executionState)
     THEN /\ lastx' = [op |-> "start", id |-> id, res |-> "busy"]
          /\ UNCHANGED <<starts, cache, cacheLoaded>>
     ELSE /\ starts' = [starts EXCEPT ![r] =
                          [pc |-> "got", id |-> id, plan |-> got(Own, id),
                           toolsOk |-> toolsOk]]
          /\ cache' = [cache EXCEPT ![Own] = afterGet(Own, id)]
          /\ cacheLoaded' = [cacheLoaded EXCEPT ![Own] = @ \/ cache[Own][id] = NoPlan]
          /\ UNCHANGED lastx
  /\ UNCHANGED <<disk, now, executionState, log, sess, marked, timeout, readOut>>
  /\ UNCHANGED StoreVars
  /\ UNCHANGED auxVars

\* startExecution: "if (!plan || plan.status !== 'approved') return", the
\* exit from plan mode, then executePlan's validatePreflight(plan,
\* plan.version, availableTools).
StartPreflight(r) ==
  /\ starts[r].pc = "got"
  /\ LET plan == starts[r].plan IN
     IF plan = NoPlan \/ plan.status # "approved" THEN
       /\ starts' = [starts EXCEPT ![r] = StartIdle]
       /\ lastx' = [op |-> "start", id |-> starts[r].id, res |-> "not approved"]
     ELSE IF ~validatePreflight(plan, plan.version, starts[r].toolsOk) THEN
       /\ starts' = [starts EXCEPT ![r] = StartIdle]
       /\ lastx' = [op |-> "start", id |-> starts[r].id, res |-> "preflight failed"]
     ELSE
       /\ starts' = [starts EXCEPT ![r].pc = "mark"]
       /\ UNCHANGED lastx
  /\ IF starts[r].plan = NoPlan \/ starts[r].plan.status # "approved"
     THEN UNCHANGED <<planMode, allToolNames, activeTools, entered>>
     ELSE exitForExecution
  /\ UNCHANGED <<pure, doc, given, registry, decision>>
  /\ UNCHANGED <<disk, cache, cacheLoaded, now, executionState, log, sess, marked,
                 timeout, xops, readOut>>
  /\ UNCHANGED StoreVars

\* An executePlan that writes the execution_start record before it marks
\* the plan.
StartMarkAfterLogStart(r) ==
  /\ starts[r].pc = "mark"
  /\ log' = [log EXCEPT ![starts[r].id] = appendFileSync(@, StartEntry(starts[r].id, now))]
  /\ StoreUpdate(Own, starts[r].id, Call("markExecuting"))
  /\ IF updated(Own, starts[r].id, Call("markExecuting"), now) = NoPlan
     THEN /\ starts' = [starts EXCEPT ![r] = StartIdle]
          /\ lastx' = [op |-> "start", id |-> starts[r].id, res |-> "mark failed"]
          /\ UNCHANGED marked
     ELSE /\ starts' = [starts EXCEPT ![r].pc = "scripts"]
          /\ marked' = marked \cup {starts[r].id}
          /\ UNCHANGED lastx
  /\ UNCHANGED <<cacheLoaded, now, executionState, sess, timeout, xops, readOut>>
  /\ UNCHANGED StoreVars
  /\ UNCHANGED auxVars

\* executePlan: "await store.markExecuting(plan.id)"; a throw ends the start.
StartMark(r) ==
  /\ starts[r].pc = "mark"
  /\ StoreUpdate(Own, starts[r].id, Call("markExecuting"))
  /\ IF updated(Own, starts[r].id, Call("markExecuting"), now) = NoPlan
     THEN /\ starts' = [starts EXCEPT ![r] = StartIdle]
          /\ lastx' = [op |-> "start", id |-> starts[r].id, res |-> "mark failed"]
          /\ UNCHANGED marked
     ELSE /\ starts' = [starts EXCEPT ![r].pc = "scripts"]
          /\ marked' = marked \cup {starts[r].id}
          /\ UNCHANGED lastx
  /\ UNCHANGED <<cacheLoaded, now, executionState, sess, timeout, xops, readOut>>
  /\ UNCHANGED log
  /\ UNCHANGED StoreVars
  /\ UNCHANGED auxVars

\* executePlan: the scripts update (a throw is passed over), then
\* new CheckpointLogger + checkpoint.logStart(plan.id).
StartScripts(r) ==
  /\ starts[r].pc = "scripts"
  /\ StoreUpdate(Own, starts[r].id, Call("scripts"))
  /\ log' = [log EXCEPT ![starts[r].id] = appendFileSync(@, StartEntry(starts[r].id, now))]
  /\ starts' = [starts EXCEPT ![r].pc = "status"]
  /\ UNCHANGED <<cacheLoaded, now, executionState, sess, lastx, marked, timeout, xops,
                 readOut>>
  /\ UNCHANGED StoreVars
  /\ UNCHANGED auxVars

\* executePlan: "await onStatusUpdate()" (list -> loadCache); back in
\* startExecution: executionState = result.state, return the prompt.
StartFinish(r) ==
  /\ starts[r].pc = "status"
  /\ cache' = [cache EXCEPT ![Own] = loaded(Own)]
  /\ cacheLoaded' = [cacheLoaded EXCEPT ![Own] = TRUE]
  /\ executionState' = [planId |-> starts[r].id, done |-> FALSE, ok |-> FALSE]
  /\ starts' = [starts EXCEPT ![r] = StartIdle]
  /\ lastx' = [op |-> "start", id |-> starts[r].id, res |-> "started"]
  /\ UNCHANGED <<disk, now, log, sess, marked, timeout, xops, readOut>>
  /\ UNCHANGED StoreVars
  /\ UNCHANGED auxVars


\* ---------------------------------------------------------- plan_run_script
\* plan_run_script with no executionState: the error result.
ReportRefused(action) ==
  /\ executionState = NoExec
  /\ lastx' = [op |-> action, id |-> "P1", res |-> "error"]
  /\ UNCHANGED <<disk, cache, executionState, log>>

\* step_complete / step_failed: checkpoint.logStep, then the scripts update
\* (a throw is passed over).
ReportStep(action, step, summary) ==
  /\ executionState # NoExec
  /\ log' = [log EXCEPT ![executionState.planId] =
               appendFileSync(@, StepEntry(step - 1, executionState.planId, action,
                                           IF action = "step_complete" THEN "success"
                                                                       ELSE "failed",
                                           summary, now))]
  /\ StoreUpdate(Own, executionState.planId,
                 [kind |-> action, step |-> step, summary |-> summary])
  /\ lastx' = [op |-> action, id |-> executionState.planId, res |-> "recorded"]
  /\ UNCHANGED executionState

\* plan_complete / plan_failed -> finishExecution: state.done = true,
\* checkpoint.logEnd, then markCompleted / markFailed (a throw is passed over).
ReportEnd(action, summary) ==
  /\ executionState # NoExec
  /\ executionState' = [executionState EXCEPT !.done = TRUE,
                                               !.ok = (action = "plan_complete")]
  /\ log' = [log EXCEPT ![executionState.planId] =
               appendFileSync(@, EndEntry(executionState.planId,
                                          IF action = "plan_complete" THEN "completed"
                                                                      ELSE "failed",
                                          summary, now))]
  /\ StoreUpdate(Own, executionState.planId,
                 [Call(IF action = "plan_complete" THEN "markCompleted" ELSE "markFailed")
                    EXCEPT !.summary = summary])
  /\ lastx' = [op |-> action, id |-> executionState.planId, res |-> "finished"]

\* The plan_run_script tool.
Report(action, step, summary) ==
  /\ Within("report", MaxReports)
  /\ xops' = Count("report")
  /\ \/ ReportRefused(action)
     \/ action \in {"step_complete", "step_failed"} /\ ReportStep(action, step, summary)
     \/ action \in {"plan_complete", "plan_failed"} /\ ReportEnd(action, summary)
  /\ UNCHANGED <<cacheLoaded, now, starts, sess, marked, timeout, readOut>>
  /\ UNCHANGED StoreVars
  /\ UNCHANGED auxVars

\* agent_end: an execution that is done leaves the slot.
AgentEnd ==
  /\ executionState # NoExec
  /\ executionState.done
  /\ executionState' = NoExec
  /\ UNCHANGED <<disk, cache, cacheLoaded, now, log, starts, sess, lastx, marked,
                 timeout, xops, readOut>>
  /\ UNCHANGED StoreVars
  /\ UNCHANGED auxVars

\* ------------------------------------------------------------------ /plans
\* viewPlanDetail: the actions offered for a status (those that update the plan).
menu(status) ==
  CASE status = "approved" -> {"Cancel"}
    [] status = "stalled" -> {"Retry", "Mark as Failed", "Cancel"}
    [] status = "executing" -> {"Mark as Completed", "Mark as Failed"}
    [] status = "failed" -> {"Retry"}
    [] OTHER -> {}

\* The mutator behind an action of the menu.
menuUpdater(action) ==
  CASE action = "Cancel" -> Call("cancel")
    [] action = "Retry" -> Call("retry")
    [] action = "Mark as Completed" ->
         [Call("markCompleted") EXCEPT !.summary = "Manually completed"]
    [] OTHER -> [Call("markFailed") EXCEPT !.summary = "Manually marked as failed"]

\* /plans: list, get(planId), the menu for the plan's status, the action.
UserAction(id, action) ==
  /\ Within("user", MaxUserOps)
  /\ loaded(Own)[id] # NoPlan
  /\ action \in menu(loaded(Own)[id].status)
  /\ xops' = Count("user")
  /\ StoreUpdateFrom(Own, loaded(Own), id, menuUpdater(action))
  /\ cacheLoaded' = [cacheLoaded EXCEPT ![Own] = TRUE]
  /\ lastx' = [op |-> action, id |-> id, res |-> "done"]
  /\ UNCHANGED <<now, executionState, log, starts, sess, marked, timeout, readOut>>
  /\ UNCHANGED StoreVars
  /\ UNCHANGED auxVars

\* ------------------------------------------------------------ session_start
\* findStalledPlans(executingPlans, timeoutMinutes), as the set of their ids.
findStalledPlans(plans, executing, timeoutMinutes, t) ==
  {i \in executing :
     /\ plans[i].execution_started_at # {}
     /\ \E startedAt \in plans[i].execution_started_at : t - startedAt > timeoutMinutes}

\* session_start: planMode restored from the session's last planner entry
\* (persisted: the empty set when the session has none), applyMode, then
\* list({status: "executing"}) and findStalledPlans.
SessionStartWith(persisted) ==
  /\ sess = SessIdle
  /\ Within("session", MaxSessions)
  /\ xops' = Count("session")
  /\ setMode(IF persisted = {} THEN planMode ELSE CHOOSE b \in persisted : TRUE)
  /\ cache' = [cache EXCEPT ![Own] = loaded(Own)]
  /\ cacheLoaded' = [cacheLoaded EXCEPT ![Own] = TRUE]
  /\ LET plans == loaded(Own)
         executing == {i \in PlanIds : plans[i] # NoPlan /\ plans[i].status = "executing"}
         stalled == findStalledPlans(plans, executing, timeout, now)
     IN sess' = IF stalled = {} THEN SessIdle ELSE [pc |-> "mark", todo |-> stalled]
  /\ UNCHANGED <<pure, doc, given, registry, decision>>
  /\ UNCHANGED <<disk, now, executionState, log, starts, lastx, marked, timeout, readOut>>
  /\ UNCHANGED StoreVars

\* session_start of a session that holds no planner entry.
SessionStart == SessionStartWith({})

\* session_start: "await s.update(plan.id, (p) => { p.status = 'stalled' })"
\* for the next stalled plan; a throw ends the handler.
SessionMark(id) ==
  /\ sess.pc = "mark"
  /\ id \in sess.todo
  /\ \A j \in sess.todo : (j = "P1") => (id = "P1")
  /\ StoreUpdate(Own, id, Call("stall"))
  /\ sess' = IF updated(Own, id, Call("stall"), now) = NoPlan \/ sess.todo = {id}
             THEN SessIdle
             ELSE [sess EXCEPT !.todo = @ \ {id}]
  /\ UNCHANGED <<cacheLoaded, now, executionState, log, starts, lastx, marked, timeout,
                 xops, readOut>>
  /\ UNCHANGED StoreVars
  /\ UNCHANGED auxVars

\* ------------------------------------------------------------ other process
\* The store of another process on the same directory updates a plan.
OtherUpdate(id, kind) ==
  /\ Within("other", MaxOtherOps)
  /\ updated(Other, id, Call(kind), now) # NoPlan
  /\ xops' = Count("other")
  /\ StoreUpdate(Other, id, Call(kind))
  /\ UNCHANGED <<cacheLoaded, now, executionState, log, starts, sess, lastx, marked,
                 timeout, readOut>>
  /\ UNCHANGED StoreVars
  /\ UNCHANGED auxVars

\* ------------------------------------------------------------ specification
\* A project directory with plan P1 approved, or left executing by an earlier
\* session (its checkpoint file holding that session's start line), and plan
\* P2 approved; the extension freshly activated.
InitExec ==
  /\ \E left \in BOOLEAN :
       /\ disk = [i \in PlanIds |->
                    IF i = "P1" /\ left
                    THEN serializePlan([MkPlan("executing", 3, 0)
                                          EXCEPT !.execution_started_at = {0}])
                    ELSE serializePlan(MkPlan("approved", 2, 0))]
       /\ log = [i \in PlanIds |->
                    IF i = "P1" /\ left THEN appendFileSync(NoLog, StartEntry(i, 0))
                    ELSE NoLog]
  /\ timeout \in 0 .. MaxTimeout
  /\ used = PlanIds
  /\ cacheLoaded = [s \in Stores |-> FALSE]
  /\ cache = [s \in Stores |-> EmptyCache]
  /\ tmps = [x \in PlanIds \X Times |-> NoFile]
  /\ task = [s \in Stores |-> Idle]
  /\ last = NoCall
  /\ now = 0
  /\ ops = 0
  /\ invalidated = [s \in Stores |-> FALSE]
  /\ invs = 0
  /\ executionState = NoExec
  /\ starts = [r \in Requesters |-> StartIdle]
  /\ sess = SessIdle
  /\ lastx = NoRequest
  /\ marked = {}
  /\ xops = NoCounts
  /\ readOut = NoRead
  /\ AuxAtRest

ReportActions == {"step_complete", "step_failed", "plan_complete", "plan_failed"}

NextExec ==
  \/ \E r \in Requesters, id \in PlanIds, toolsOk \in BOOLEAN : StartExecution(r, id, toolsOk)
  \/ \E r \in Requesters : StartPreflight(r)
  \/ \E r \in Requesters : StartMark(r)
  \/ \E r \in Requesters : StartScripts(r)
  \/ \E r \in Requesters : StartFinish(r)
  \/ \E action \in ReportActions, step \in 1 .. NSteps, summary \in Summaries :
       Report(action, step, summary)
  \/ AgentEnd
  \/ \E id \in PlanIds, action \in {"Cancel", "Retry", "Mark as Completed", "Mark as Failed"} :
       UserAction(id, action)
  \/ SessionStart
  \/ \E id \in PlanIds : SessionMark(id)
  \/ \E id \in PlanIds, kind \in {"markCompleted", "cancel"} : OtherUpdate(id, kind)
  \/ Tick

SpecExec == InitExec /\ [][NextExec]_vars

\* ------------------------------------------------------------ readCheckpoint
\* content.split("\n") of a file whose lines each end in "\n": the lines,
\* then the empty string after the last "\n".
split(lines) == lines \o <<Blank>>

\* JSON.parse(line): the set holding the parsed value; empty when it throws.
parse(line) == IF "json" \in DOMAIN line THEN {line.json} ELSE {}

\* The loop of readCheckpoint over the lines that are left.
RECURSIVE readLines(_)
readLines(lines) ==
  IF lines = <<>> THEN <<>>
  ELSE LET line == Head(lines)
           rest == readLines(Tail(lines))
       IN IF line = Blank THEN rest
          ELSE IF parse(line) = {} THEN rest
          ELSE LET entry == CHOOSE e \in parse(line) : TRUE
               IN IF "step" \in DOMAIN entry THEN <<entry>> \o rest ELSE rest

\* A reader that gives up the whole file at a line it cannot parse.
readCheckpointStrict(file) ==
  IF ~file.exists THEN <<>>
  ELSE IF \E k \in 1 .. Len(file.lines) : file.lines[k] # Blank /\ parse(file.lines[k]) = {}
  THEN <<>>
  ELSE readLines(split(file.lines))

\* readCheckpoint(projectRoot, planId): readFileSync throwing (no file) gives [].
readCheckpoint(file) ==
  IF ~file.exists THEN <<>> ELSE readLines(split(file.lines))

\* countCompletedSteps: readCheckpoint(...).filter(s => s.status === "success").length
countCompletedSteps(file) ==
  Len(SelectSeq(readCheckpoint(file), LAMBDA st : st.status = "success"))

\* A caller reads the checkpoint file of plan id.
ReadLog(id) ==
  /\ readOut' = [of |-> id, steps |-> readCheckpoint(log[id]),
                 count |-> countCompletedSteps(log[id])]
  /\ UNCHANGED <<disk, cache, cacheLoaded, now, executionState, log, starts, sess, lastx,
                 marked, timeout, xops>>
  /\ UNCHANGED StoreVars
  /\ UNCHANGED auxVars

\* The lines a checkpoint file may hold: the records the logger writes, a line
\* that is not JSON (a torn write), a blank line.
LogLines ==
  {stringify(StepEntry(0, "P1", "step_complete", "success", "s1", 0)),
   stringify(StepEntry(1, "P1", "step_failed", "failed", "s2", 0)),
   stringify(StartEntry("P1", 0)),
   stringify(EndEntry("P1", "completed", "s1", 0)),
   Malformed, Blank}

\* The files of at most MaxLines lines.
LogFiles ==
  UNION {{[exists |-> TRUE, lines |-> ls] : ls \in [1 .. n -> LogLines]} : n \in 0 .. MaxLines}

\* P1's checkpoint file is any such file, P2 has none; nothing has been read.
InitLog ==
  /\ InitBase
  /\ executionState = NoExec
  /\ starts = [r \in Requesters |-> StartIdle]
  /\ sess = SessIdle
  /\ lastx = NoRequest
  /\ marked = {}
  /\ timeout = 0
  /\ xops = NoCounts
  /\ readOut = NoRead
  /\ AuxAtRest
  /\ \E file \in LogFiles : log = [i \in PlanIds |-> IF i = "P1" THEN file ELSE NoLog]

NextLog == \E id \in PlanIds : ReadLog(id)

SpecLog == InitLog /\ [][NextLog]_vars

\* --------------------------------------------------------- validatePreflight
\* An empty plan directory, no call in flight: the store part of the state of
\* the specifications below, which do not use the store.
StoreAtRest ==
  /\ disk = [i \in PlanIds |-> NoFile]
  /\ used = {}
  /\ cacheLoaded = [s \in Stores |-> FALSE]
  /\ cache = [s \in Stores |-> EmptyCache]
  /\ tmps = [x \in PlanIds \X Times |-> NoFile]
  /\ task = [s \in Stores |-> Idle]
  /\ last = NoCall
  /\ now = 0
  /\ ops = 0
  /\ invalidated = [s \in Stores |-> FALSE]
  /\ invs = 0

\* The elements of a sequence (new Set(array)).
Range(seq) == {seq[k] : k \in 1 .. Len(seq)}

\* The sequences of at most n elements of a set.
SeqUpTo(set, n) == UNION {[1 .. k -> set] : k \in 0 .. n}

\* A validation that looks at the tools before the version.
PreflightResultToolsFirst(plan, expectedVersion, availableTools) ==
  LET missing == SelectSeq(plan.tools_required, LAMBDA t : t \notin Range(availableTools))
  IN IF plan.status # "approved"
     THEN [ok |-> FALSE, error |-> [check |-> "status", found |-> plan.status]]
     ELSE IF Len(missing) > 0
     THEN [ok |-> FALSE, error |-> [check |-> "tools", missing |-> missing]]
     ELSE IF plan.version # expectedVersion
     THEN [ok |-> FALSE,
           error |-> [check |-> "version", expected |-> expectedVersion,
                      found |-> plan.version]]
     ELSE [ok |-> TRUE]

\* validatePreflight(plan, expectedVersion, availableTools) with its result:
\* the error names the failing check and what its message quotes.
PreflightResult(plan, expectedVersion, availableTools) ==
  LET missing == SelectSeq(plan.tools_required, LAMBDA t : t \notin Range(availableTools))
  IN IF plan.status # "approved"
     THEN [ok |-> FALSE, error |-> [check |-> "status", found |-> plan.status]]
     ELSE IF plan.version # expectedVersion
     THEN [ok |-> FALSE,
           error |-> [check |-> "version", expected |-> expectedVersion,
                      found |-> plan.version]]
     ELSE IF Len(missing) > 0
     THEN [ok |-> FALSE, error |-> [check |-> "tools", missing |-> missing]]
     ELSE [ok |-> TRUE]

\* The inputs validatePreflight is called with.
ToolNames == {"odoo-toolbox", "go-easy"}
PreflightPlans ==
  [status : PlanStatus, version : 1 .. MaxVersion,
   tools_required : SeqUpTo(ToolNames, MaxTools)]

\* A call of validatePreflight.
Preflight(plan, expectedVersion, availableTools) ==
  /\ pure = NoPure
  /\ pure' = [fn |-> "validatePreflight", plan |-> plan,
              expectedVersion |-> expectedVersion, availableTools |-> availableTools,
              out |-> PreflightResult(plan, expectedVersion, availableTools)]
  /\ UNCHANGED <<doc, given, planMode, allToolNames, activeTools, entered, registry,
                 decision>>
  /\ UNCHANGED <<disk, cache, cacheLoaded, now>>
  /\ UNCHANGED execVars
  /\ UNCHANGED StoreVars

\* ---------------------------------------------------------- findStalledPlans
\* A filter that also returns a plan whose elapsed time equals the timeout.
findStalledPlansInclusive(executingPlans, timeoutMinutes, nowMs) ==
  LET timeoutMs == timeoutMinutes * 60 * 1000
  IN SelectSeq(executingPlans,
               LAMBDA p : /\ p.execution_started_at # {}
                          /\ \E startedAt \in p.execution_started_at :
                               nowMs - startedAt >= timeoutMs)

\* findStalledPlans(executingPlans, timeoutMinutes) at Date.now() = nowMs,
\* the plans in the order given and the times in milliseconds.
findStalledPlansAt(executingPlans, timeoutMinutes, nowMs) ==
  LET timeoutMs == timeoutMinutes * 60 * 1000
  IN SelectSeq(executingPlans,
               LAMBDA p : /\ p.execution_started_at # {}
                          /\ \E startedAt \in p.execution_started_at :
                               nowMs - startedAt > timeoutMs)

\* The inputs findStalledPlans is called with: plans started at 0 ms, at 1 ms
\* or without execution_started_at, and the clock around one minute.
StartedAts == {{}, {0}, {1}}
NowsMs == {0, 1, 60000, 60001}
ExecutingPlans == [id : PlanIds, execution_started_at : StartedAts]

\* A call of findStalledPlans.
Stalled(executingPlans, timeoutMinutes, nowMs) ==
  /\ pure = NoPure
  /\ pure' = [fn |-> "findStalledPlans", plans |-> executingPlans,
              timeoutMinutes |-> timeoutMinutes, nowMs |-> nowMs,
              out |-> findStalledPlansAt(executingPlans, timeoutMinutes, nowMs)]
  /\ UNCHANGED <<doc, given, planMode, allToolNames, activeTools, entered, registry,
                 decision>>
  /\ UNCHANGED <<disk, cache, cacheLoaded, now>>
  /\ UNCHANGED execVars
  /\ UNCHANGED StoreVars

\* One call of either function, with any input of its bounded sets.
InitPure == StoreAtRest /\ ExecAtRest /\ AuxAtRest

NextPure ==
  \/ \E plan \in PreflightPlans, expectedVersion \in 1 .. MaxVersion,
        availableTools \in SeqUpTo(ToolNames, MaxTools) :
       Preflight(plan, expectedVersion, availableTools)
  \/ \E executingPlans \in SeqUpTo(ExecutingPlans, MaxPlans),
        timeoutMinutes \in 0 .. MaxTimeout, nowMs \in NowsMs :
       Stalled(executingPlans, timeoutMinutes, nowMs)

SpecPure == InitPure /\ [][NextPure]_vars

\* ------------------------------------------------------------ plan file text
\* Text is kept by the character: a line is a sequence of characters (the
\* words Steps and Context count as one character each), a string is the
\* sequence of its lines (what split("\n") gives; "" is one empty line).
Min(S) == CHOOSE x \in S : \A y \in S : x <= y
Max(S) == CHOOSE x \in S : \A y \in S : x >= y
Digits == {ToString(k) : k \in 0 .. 9}
EmptyString == << <<>> >>

\* The number of spaces (\s) of line L from index i on.
SpaceRun(L, i) ==
  CHOOSE k \in 0 .. (Len(L) + 1 - i) :
    /\ \A j \in i .. (i + k - 1) : L[j] = " "
    /\ (i + k > Len(L) \/ L[i + k] # " ")

\* The number of digits (\d) L starts with.
DigitRun(L) ==
  CHOOSE k \in 0 .. Len(L) :
    /\ \A j \in 1 .. k : L[j] \in Digits
    /\ (k = Len(L) \/ L[k + 1] \notin Digits)

\* serializePlan: `${i + 1}. ${s.description} (${s.tool}: ${s.operation}${target})`
\* with target = s.target ? ` → ${s.target}` : "".
stepLine(i, st) ==
  <<ToString(i), ".", " ">> \o st.description
    \o <<" ", "(">> \o st.tool \o <<":", " ">> \o st.operation
    \o (IF st.target = {} \/ st.target = {<<>>} THEN <<>>
        ELSE <<" ", "→", " ">> \o (CHOOSE t \in st.target : TRUE))
    \o <<")">>

\* The step regex from the operation's end e on: either `\)$` (no target, the
\* set holding undefined) or `\s+→\s+(.+?)\)$` (the set holding the target);
\* empty when neither matches.
afterOperation(L, e) ==
  LET n == Len(L)
      target(j, s5) == IF s5 < 1 THEN {} ELSE {{SubSeq(L, j + s5, n - 1)}}
      arrow(i, s4) ==
        IF s4 < 1 \/ i + s4 > n \/ L[i + s4] # "→" THEN {}
        ELSE target(i + s4 + 1,
                    Min({SpaceRun(L, i + s4 + 1), n - 1 - (i + s4 + 1)}))
  IN IF e + 1 > n \/ L[n] # ")" THEN {}
     ELSE IF e + 1 = n THEN {{}}
     ELSE arrow(e + 1, SpaceRun(L, e + 1))

\* `(\S+?)` for the operation from index p on, lazily, and what follows.
operationMatch(L, p) ==
  LET shortest(ends) ==
        IF ends = {} THEN {}
        ELSE {[operation |-> SubSeq(L, p, Min(ends)), target |-> t] :
                t \in afterOperation(L, Min(ends))}
  IN shortest({e \in p .. Len(L) :
                 (\A k \in p .. e : L[k] # " ") /\ afterOperation(L, e) # {}})

\* `(\S+?):\s+` for the tool from index q on, lazily, and what follows.
toolMatch(L, q) ==
  LET operationAt(c) == operationMatch(L, c + 1 + SpaceRun(L, c + 1))
      shortest(colons) ==
        IF colons = {} THEN {}
        ELSE {[tool |-> SubSeq(L, q, Min(colons) - 1), operation |-> m.operation,
               target |-> m.target] : m \in operationAt(Min(colons))}
  IN shortest({c \in (q + 1) .. Len(L) :
                 /\ \A k \in q .. (c - 1) : L[k] # " "
                 /\ L[c] = ":"
                 /\ SpaceRun(L, c + 1) >= 1
                 /\ operationAt(c) # {}})

\* `(.+?)\s+\(` for the description from index a on, lazily, and what follows.
descriptionMatch(L, a) ==
  LET toolAt(open) ==
        IF open <= Len(L) /\ L[open] = "(" THEN toolMatch(L, open + 1) ELSE {}
      toolAfter(b) == toolAt(b + 1 + SpaceRun(L, b + 1))
      shortest(ends) ==
        IF ends = {} THEN {}
        ELSE {[description |-> SubSeq(L, a, Min(ends)), tool |-> m.tool,
               operation |-> m.operation, target |-> m.target] :
                m \in toolAfter(Min(ends))}
  IN shortest({b \in a .. Len(L) : SpaceRun(L, b + 1) >= 1 /\ toolAfter(b) # {}})

\* parsePlan: line.match(/^\d+\.\s+(.+?)\s+\((\S+?):\s+(\S+?)(?:\s+→\s+(.+?))?\)$/)
\* as the set holding the step parsed, empty when the line does not match.
stepMatch(L) ==
  LET longest(d, starts1) ==
        IF starts1 = {} THEN {} ELSE descriptionMatch(L, d + 2 + Max(starts1))
      numbered(d) ==
        IF d < 1 \/ d + 1 > Len(L) \/ L[d + 1] # "." THEN {}
        ELSE longest(d, {w \in 1 .. SpaceRun(L, d + 2) :
                           descriptionMatch(L, d + 2 + w) # {}})
  IN numbered(DigitRun(L))

\* String.prototype.trim on a string kept by the line.
isBlank(L) == \A k \in 1 .. Len(L) : L[k] = " "
trimStartLine(L) == SubSeq(L, SpaceRun(L, 1) + 1, Len(L))
trimEndLine(L) == SubSeq(L, 1, Max({0} \cup {k \in 1 .. Len(L) : L[k] # " "}))
trim(S) ==
  LET between(f, l) ==
        [i \in 1 .. (l - f + 1) |->
           IF i = 1 /\ f = l THEN trimEndLine(trimStartLine(S[f]))
           ELSE IF i = 1 THEN trimStartLine(S[f])
           ELSE IF f + i - 1 = l THEN trimEndLine(S[l])
           ELSE S[f + i - 1]]
      inked(lines) == IF lines = {} THEN EmptyString ELSE between(Min(lines), Max(lines))
  IN inked({i \in 1 .. Len(S) : ~isBlank(S[i])})

\* a + b on strings kept by the line.
concat(S, T) ==
  SubSeq(S, 1, Len(S) - 1) \o <<S[Len(S)] \o T[1]>> \o SubSeq(T, 2, Len(T))

Heading(word) == <<"#", "#", " ", word>>
endsWith(L, H) == Len(L) >= Len(H) /\ SubSeq(L, Len(L) - Len(H) + 1, Len(L)) = H
startsHeading(L) == Len(L) >= 3 /\ SubSeq(L, 1, 3) = <<"#", "#", " ">>

\* body.match(/## <word>\n([\s\S]*?)(?=\n## |$)/): the first line that ends
\* in the heading and is followed by a newline, and the lines captured after
\* it, up to the first one followed by "\n## " or by the end of the text.
sectionMatch(S, word) ==
  LET from(i) == [at |-> i,
                  to |-> Min({k \in (i + 1) .. Len(S) :
                                k = Len(S) \/ startsHeading(S[k + 1])})]
      first(heads) == IF heads = {} THEN {} ELSE {from(Min(heads))}
  IN first({i \in 1 .. (Len(S) - 1) : endsWith(S[i], Heading(word))})
sectionText(S, m) == SubSeq(S, m.at + 1, m.to)

\* remaining.replace(/## <word>\n[\s\S]*?(?=\n## |$)/, "")
removeSection(S, word) ==
  LET without(m) == SubSeq(S, 1, m.at - 1)
                      \o <<SubSeq(S[m.at], 1, Len(S[m.at]) - Len(Heading(word)))>>
                      \o SubSeq(S, m.to + 1, Len(S))
      replaced(found) == IF found = {} THEN S ELSE without(CHOOSE m \in found : TRUE)
  IN replaced(sectionMatch(S, word))

\* The loop over stepLines: a line that does not match is dropped.
parseSteps(lines) ==
  LET pushed(matches) == [i \in 1 .. Len(matches) |-> CHOOSE m \in matches[i] : TRUE]
  IN pushed(SelectSeq([i \in 1 .. Len(lines) |-> stepMatch(lines[i])],
                      LAMBDA m : m # {}))

\* serializePlan, the file by the line after the frontmatter's closing "---".
\* An optional field is the empty set (undefined) or the set of its value.
truthy(field) == field # {} /\ field # {EmptyString}
bodyText(plan) ==
  EmptyString
    \o (IF Len(plan.steps) > 0
        THEN <<Heading("Steps")>>
               \o [i \in 1 .. Len(plan.steps) |-> stepLine(i, plan.steps[i])]
               \o EmptyString
        ELSE <<>>)
    \o (IF truthy(plan.context)
        THEN <<Heading("Context")>> \o (CHOOSE c \in plan.context : TRUE) \o EmptyString
        ELSE <<>>)
    \o (IF truthy(plan.body) THEN CHOOSE b \in plan.body : TRUE ELSE <<>>)
    \o EmptyString

serializeText(plan) ==
  [status |-> plan.status, version |-> plan.version,
   execution_started_at |-> plan.execution_started_at,
   execution_ended_at |-> plan.execution_ended_at,
   result_summary |-> plan.result_summary, text |-> bodyText(plan)]

\* parsePlan on the text of a file.
parseText(file) ==
  LET parsed(body, stepsMatch, ctxMatch, remaining) ==
        [status |-> file.status,
         version |-> file.version,
         execution_started_at |-> file.execution_started_at,
         execution_ended_at |-> file.execution_ended_at,
         result_summary |-> file.result_summary,
         steps |-> IF stepsMatch = {} THEN <<>>
                   ELSE parseSteps(trim(sectionText(body, CHOOSE m \in stepsMatch : TRUE))),
         context |-> IF ctxMatch = {} THEN {}
                     ELSE {trim(sectionText(body, CHOOSE m \in ctxMatch : TRUE))},
         body |-> IF remaining = EmptyString THEN {} ELSE {remaining}]
      afterSteps(body, stepsMatch) ==
        IF stepsMatch # {} THEN removeSection(body, "Steps") ELSE body
      sections(body, stepsMatch, ctxMatch) ==
        parsed(body, stepsMatch, ctxMatch,
               trim(IF ctxMatch # {}
                    THEN removeSection(afterSteps(body, stepsMatch), "Context")
                    ELSE afterSteps(body, stepsMatch)))
      matched(body) ==
        sections(body, sectionMatch(body, "Steps"), sectionMatch(body, "Context"))
  IN matched(trim(file.text))

\* --------------------------------------------- one plan file, by its text
StepValues ==
  {[description |-> <<"a", " ", "b">>, tool |-> <<"t">>, operation |-> <<"o">>,
    target |-> {}],
   [description |-> <<"a">>, tool |-> <<"t">>, operation |-> <<"o">>,
    target |-> {<<"x">>}],
   [description |-> <<"a">>, tool |-> <<"t">>, operation |-> <<"o", " ", "p">>,
    target |-> {}]}
Contexts == {{}, {<< <<"c">> >>}, {<< <<"c">>, <<"#", "#", " ", "h">> >>}}
Feedbacks == {{}, {<< <<"f">> >>}}
DocInputs == [steps : SeqUpTo(StepValues, NSteps), context : Contexts]
UpdateKinds ==
  {"approve", "reject", "cancel", "markExecuting", "markCompleted", "markFailed",
   "stall", "retry", "update"}

\* create: the plan built from the input and written with serializePlan.
createdPlan(input) ==
  [status |-> "proposed", version |-> 1, execution_started_at |-> {},
   execution_ended_at |-> {}, result_summary |-> {}, steps |-> input.steps,
   context |-> input.context, body |-> {}]

\* reject: (p.body ?? "") + `\n\n## Rejection (v${p.version})\n${feedback}`
rejectionBody(plan, feedback) ==
  concat(concat(IF plan.body = {} THEN EmptyString ELSE CHOOSE b \in plan.body : TRUE,
                <<<<>>, <<>>,
                  <<"#", "#", " ", "Rejection", " ", "(", "v",
                    ToString(plan.version), ")">>,
                  <<>>>>),
         CHOOSE f \in feedback : TRUE)

\* A Retry that leaves the summary of the failed run in the plan.
retryKeepsSummary(plan) ==
  [plan EXCEPT !.status = "approved", !.execution_started_at = {},
               !.execution_ended_at = {}]

\* Retry: p.status = "approved"; result_summary, execution_started_at,
\* execution_ended_at (execution_session, scripts) = undefined.
retryUpdater(plan) ==
  [plan EXCEPT !.status = "approved", !.result_summary = {},
               !.execution_started_at = {}, !.execution_ended_at = {}]

\* The updaters of approve, reject, cancel, markExecuting, markCompleted,
\* markFailed, of the stalled marking, of Retry and of an update that leaves
\* the plan alone: the set holding the plan updated, empty when the updater
\* throws.
textUpdater(kind, feedback, plan) ==
  CASE kind = "approve" ->
         IF plan.status # "proposed" THEN {} ELSE {[plan EXCEPT !.status = "approved"]}
    [] kind = "reject" ->
         IF plan.status # "proposed" THEN {}
         ELSE {[plan EXCEPT !.status = "rejected",
                            !.body = IF truthy(feedback)
                                     THEN {rejectionBody(plan, feedback)}
                                     ELSE plan.body]}
    [] kind = "cancel" -> {[plan EXCEPT !.status = "cancelled"]}
    [] kind = "markExecuting" ->
         IF plan.status # "approved" THEN {}
         ELSE {[plan EXCEPT !.status = "executing", !.execution_started_at = {"now"}]}
    [] kind = "markCompleted" ->
         {[plan EXCEPT !.status = "completed", !.execution_ended_at = {"now"},
                       !.result_summary = {"summary"}]}
    [] kind = "markFailed" ->
         {[plan EXCEPT !.status = "failed", !.execution_ended_at = {"now"},
                       !.result_summary = {"error"}]}
    [] kind = "stall" -> {[plan EXCEPT !.status = "stalled"]}
    [] kind = "retry" -> {retryUpdater(plan)}
    [] OTHER -> {plan}

DocCreate(input) ==
  /\ doc = NoDoc
  /\ given' = input
  /\ doc' = serializeText(createdPlan(input))
  /\ UNCHANGED <<pure, planMode, allToolNames, activeTools, entered, registry, decision>>
  /\ UNCHANGED execVars
  /\ UNCHANGED StoreVars
  /\ UNCHANGED <<disk, cache, cacheLoaded, now>>

\* update on the one file: parsePlan, the updater, version++, serializePlan.
DocUpdate(kind, feedback) ==
  /\ doc # NoDoc
  /\ doc.version <= MaxOps
  /\ \E plan \in textUpdater(kind, feedback, parseText(doc)) :
       doc' = serializeText([plan EXCEPT !.version = plan.version + 1])
  /\ last' = Return(Own, [op |-> "update", id |-> "P1", kind |-> kind], "ok")
  /\ UNCHANGED <<given, pure, planMode, allToolNames, activeTools, entered, registry,
                 decision>>
  /\ UNCHANGED execVars
  /\ UNCHANGED <<tmps, task, ops, used, invalidated, invs>>
  /\ UNCHANGED <<disk, cache, cacheLoaded, now>>

InitDoc == StoreAtRest /\ ExecAtRest /\ AuxAtRest
NextDoc ==
  \/ \E input \in DocInputs : DocCreate(input)
  \/ \E kind \in UpdateKinds, feedback \in Feedbacks : DocUpdate(kind, feedback)
SpecDoc == InitDoc /\ [][NextDoc]_vars

\* ------------------------------------------- a directory with a broken file
\* A directory that holds plan P1 and a file P2 that parsePlan rejects, and
\* two stores constructed on it; store B may have loaded its cache already.
InitBroken ==
  /\ \E d \in {MkPlan("proposed", 1, 0), MkPlan("approved", 2, 0)}, warm \in BOOLEAN :
       /\ disk = [i \in PlanIds |-> IF i = "P1" THEN serializePlan(d) ELSE Truncated]
       /\ cacheLoaded = [s \in Stores |-> s = "B" /\ warm]
       /\ cache = [s \in Stores |->
                    IF s = "B" /\ warm THEN [EmptyCache EXCEPT !["P1"] = d]
                    ELSE EmptyCache]
  /\ used = PlanIds
  /\ tmps = [x \in PlanIds \X Times |-> NoFile]
  /\ task = [s \in Stores |-> Idle]
  /\ last = NoCall
  /\ now = 0
  /\ ops = 0
  /\ invalidated = [s \in Stores |-> FALSE]
  /\ invs = 0
  /\ ExecAtRest
  /\ AuxAtRest

\* get, list and update on that directory, one call at a time.
NextBroken ==
  \/ \E s \in Stores, id \in PlanIds, kind \in Kinds : Alone(s) /\ UpdateRead(s, id, kind)
  \/ \E s \in Stores : Alone(s) /\ UpdateWriteTmp(s)
  \/ \E s \in Stores : Alone(s) /\ UpdateCheck(s)
  \/ \E s \in Stores : Alone(s) /\ UpdateRename(s)
  \/ \E s \in Stores, id \in PlanIds : Alone(s) /\ LoadReadFile(s, id)
  \/ \E s \in Stores, id \in PlanIds : Alone(s) /\ Get(s, id)
  \/ \E s \in Stores : Alone(s) /\ List(s)
  \/ \E s \in Stores : Alone(s) /\ task[s] = Idle /\ InvalidateCache(s)
  \/ (\A s \in Stores : task[s] = Idle) /\ Tick

SpecBroken == InitBroken /\ [][NextBroken]_vars

\* ------------------------------------------------------------ tool_call hook
\* A bash command is the sequence of its words.
\* A set of blocked tools that lacks the subagent tool.
blockedToolsWithoutTodo == {"write", "edit"}

PLAN_MODE_BLOCKED_TOOLS == {"write", "edit", "todo"}

\* SAFE_BASH_PATTERNS, by the words the command starts with.
SafeFirstWords ==
  {"cat", "head", "tail", "less", "more", "grep", "rg", "find", "fd", "ls", "exa",
   "tree", "pwd", "echo", "printf", "wc", "sort", "uniq", "diff", "file", "stat",
   "du", "df", "which", "whereis", "type", "env", "printenv", "uname", "whoami",
   "id", "date", "ps", "uptime", "jq", "awk", "bat"}
GitReads == {"status", "log", "diff", "show", "branch", "remote", "ls-files"}
NpmReads == {"list", "ls", "view", "info", "search", "outdated", "audit"}
matchesSafePattern(command) ==
  /\ Len(command) >= 1
  /\ \/ command[1] \in SafeFirstWords
     \/ /\ Len(command) >= 2
        /\ \/ command[1] = "git" /\ command[2] \in GitReads
           \/ command[1] = "git" /\ command[2] = "config" /\ Len(command) >= 3
                /\ command[3] = "--get"
           \/ command[1] = "npm" /\ command[2] \in NpmReads
           \/ command[1] \in {"node", "python"} /\ command[2] = "--version"
           \/ command[1] = "sed" /\ command[2] = "-n"
           \/ command[1] = "curl"

\* DESTRUCTIVE_PATTERNS, anywhere in the command.
DestructiveWords == {"rm", "rmdir", "mv", "sudo", "kill", "pkill"}
GitWrites ==
  {"add", "commit", "push", "pull", "merge", "rebase", "reset", "checkout",
   "stash", "cherry-pick"}
NpmWrites == {"install", "uninstall", "update", "ci", "link", "publish"}
isDestructive(command) ==
  \E i \in 1 .. Len(command) :
    \/ command[i] \in DestructiveWords
    \/ /\ i < Len(command)
       /\ \/ command[i] = "git" /\ command[i + 1] \in GitWrites
          \/ command[i] = "npm" /\ command[i + 1] \in NpmWrites

\* hasDangerousRedirect: a redirect left after N>/dev/null, N>&M and
\* &>/dev/null are taken out.
SafeRedirects == {"2>/dev/null", ">/dev/null", "2>&1", "&>/dev/null"}
Redirects == {">", ">>"} \cup SafeRedirects
hasDangerousRedirect(command) ==
  \E i \in 1 .. Len(command) : command[i] \in Redirects \ SafeRedirects

\* A filter that lets a command through as soon as a safe pattern matches.
isSafeBashCommandSafeFirst(command) ==
  IF matchesSafePattern(command) THEN TRUE
  ELSE IF isDestructive(command) THEN FALSE
  ELSE IF hasDangerousRedirect(command) THEN FALSE
  ELSE FALSE

isSafeBashCommand(command) ==
  IF isDestructive(command) THEN FALSE
  ELSE IF hasDangerousRedirect(command) THEN FALSE
  ELSE matchesSafePattern(command)

\* The words of the commands isSafeBashCommand is called with, and a call.
BashWords == {"cat", "git", "status", "push", "rm", ">", "2>/dev/null", "python", "x"}

SafeBash(command) ==
  /\ pure = NoPure
  /\ pure' = [fn |-> "isSafeBashCommand", command |-> command,
              out |-> isSafeBashCommand(command)]
  /\ UNCHANGED <<doc, given, planMode, allToolNames, activeTools, entered, registry,
                 decision>>
  /\ UNCHANGED <<disk, cache, cacheLoaded, now>>
  /\ UNCHANGED execVars
  /\ UNCHANGED StoreVars

NextBash == \E command \in SeqUpTo(BashWords, MaxWords) : SafeBash(command)

SpecBash == InitPure /\ [][NextBash]_vars

\* The safety registry: the set of the patterns registered, each with its
\* level.  A pattern is a sequence of words in which "*" stands for one or
\* more words of the command.
RECURSIVE globMatches(_, _)
globMatches(pattern, command) ==
  IF pattern = <<>> THEN command = <<>>
  ELSE IF command = <<>> THEN FALSE
  ELSE IF Head(pattern) = "*"
       THEN \/ globMatches(Tail(pattern), Tail(command))
            \/ globMatches(pattern, Tail(command))
       ELSE Head(pattern) = Head(command) /\ globMatches(Tail(pattern), Tail(command))

\* register(tool, commands, default) on one pattern: a pattern that starts
\* with the tool's name (or with a runner and the tool's name) and has a
\* level of READ or WRITE is taken, any other is rejected.
Runners == {"npx"}
accepted(tool, pattern, level) ==
  /\ level \in {"READ", "WRITE"}
  /\ Len(pattern) >= 1
  /\ \/ pattern[1] = tool
     \/ Len(pattern) >= 2 /\ pattern[1] \in Runners /\ pattern[2] = tool
register(reg, tool, pattern, level) ==
  IF accepted(tool, pattern, level) THEN reg \cup {[pattern |-> pattern, level |-> level]}
  ELSE reg

\* resolve(command): the level of a pattern that matches, or null when none
\* does (the set of the levels it may return).
resolve(reg, command) ==
  LET levels == {e.level : e \in {x \in reg : globMatches(x.pattern, command)}}
  IN IF levels = {} THEN {"null"} ELSE levels

\* guardedToolsList.some((g) => toolName === g || toolName.startsWith(`${g}_`))
Prefixed == {<<"odoo", "odoo_write">>}
isGuarded(toolName, guardedToolsList) ==
  \E g \in guardedToolsList : toolName = g \/ <<g, toolName>> \in Prefixed

\* The tool_call hook with the static rules asked before the registry.
toolCallStaticFirst(mode, toolName, command, level, guardedToolsList, hasActivePlan) ==
  LET logged == isGuarded(toolName, guardedToolsList) /\ ~hasActivePlan
  IN IF mode = "plan" /\ toolName \in PLAN_MODE_BLOCKED_TOOLS
     THEN [block |-> TRUE, reason |-> "blocked tool", logged |-> FALSE]
     ELSE IF mode = "plan" /\ toolName = "bash" /\ ~isSafeBashCommand(command)
     THEN [block |-> TRUE, reason |-> "not allowlisted", logged |-> FALSE]
     ELSE IF mode = "plan" /\ toolName = "bash" /\ level = "WRITE"
     THEN [block |-> TRUE, reason |-> "WRITE operation", logged |-> FALSE]
     ELSE [block |-> FALSE, reason |-> "none", logged |-> logged]

\* The tool_call hook: what it returns (block and reason) and whether it
\* logs a guarded call; level is what registry.resolve(command) returned.
toolCall(mode, toolName, command, level, guardedToolsList, hasActivePlan) ==
  LET logged == isGuarded(toolName, guardedToolsList) /\ ~hasActivePlan
  IN IF mode = "plan" /\ toolName \in PLAN_MODE_BLOCKED_TOOLS
     THEN [block |-> TRUE, reason |-> "blocked tool", logged |-> FALSE]
     ELSE IF mode = "plan" /\ toolName = "bash" /\ level = "READ"
     THEN [block |-> FALSE, reason |-> "none", logged |-> FALSE]
     ELSE IF mode = "plan" /\ toolName = "bash" /\ level = "WRITE"
     THEN [block |-> TRUE, reason |-> "WRITE operation", logged |-> FALSE]
     ELSE IF mode = "plan" /\ toolName = "bash" /\ ~isSafeBashCommand(command)
     THEN [block |-> TRUE, reason |-> "not allowlisted", logged |-> FALSE]
     ELSE [block |-> FALSE, reason |-> "none", logged |-> logged]

\* The bash commands and the tools of the calls, the patterns offered to
\* plan_skill_safety, and the guardedTools of the configuration.
Commands ==
  {<<"rm", "-rf", "x">>, <<"git", "push">>, <<"npm", "install", "x">>,
   <<"cat", "f">>, <<"git", "status">>, <<"python", "s.py">>,
   <<"npx", "go-gmail", "m", "search", "q">>, <<"npx", "go-gmail", "m", "send", "q">>,
   <<"npx", "go-gmail", "m", "search", "rm">>,
   <<"echo", "hi", ">", "f">>, <<"echo", "hi", "2>/dev/null">>}
NoCommand == <<>>
CalledTools == {"read", "bash", "write", "edit", "todo", "odoo", "odoo_write"}
Registrations ==
  {[tool |-> "go-gmail", pattern |-> <<"npx", "go-gmail", "*", "search", "*">>,
    level |-> "READ"],
   [tool |-> "go-gmail", pattern |-> <<"npx", "go-gmail", "*", "send", "*">>,
    level |-> "WRITE"],
   [tool |-> "go-gmail", pattern |-> <<"search", "*">>, level |-> "READ"],
   [tool |-> "rm", pattern |-> <<"rm", "*">>, level |-> "READ"],
   [tool |-> "git", pattern |-> <<"git", "*">>, level |-> "READ"],
   [tool |-> "cat", pattern |-> <<"cat", "*">>, level |-> "WRITE"]}
GuardedConfigs == {{}, {"odoo"}}

\* plan_skill_safety: registry.register(tool, commands, default).
Register(r) ==
  /\ registry' = register(registry, r.tool, r.pattern, r.level)
  /\ UNCHANGED <<pure, doc, given, planMode, allToolNames, activeTools, entered, decision>>
  /\ UNCHANGED execVars
  /\ UNCHANGED StoreVars
  /\ UNCHANGED <<disk, cache, cacheLoaded, now>>

\* The tool_call hook on a call of toolName (with command when it is bash)
\* under the configuration guardedToolsList.  The registry is asked for a
\* bash call in plan mode, and the store is listed for a guarded tool.
ToolCall(toolName, command, guardedToolsList) ==
  /\ (toolName = "bash") = (command # NoCommand)
  /\ \E level \in IF planMode /\ toolName = "bash" THEN resolve(registry, command)
                  ELSE {"null"} :
       LET plans == loaded(Own)
           hasActivePlan == \E i \in PlanIds :
                              plans[i] # NoPlan /\ plans[i].status = "executing"
           result == toolCall(getMode(planMode), toolName, command, level,
                              guardedToolsList, hasActivePlan)
           listed == ~result.block /\ ~(planMode /\ toolName = "bash" /\ level = "READ")
                       /\ isGuarded(toolName, guardedToolsList)
       IN /\ decision' = [tool |-> toolName, command |-> command,
                          mode |-> getMode(planMode), level |-> level,
                          block |-> result.block, reason |-> result.reason,
                          logged |-> result.logged]
          /\ cache' = IF listed THEN [cache EXCEPT ![Own] = loaded(Own)] ELSE cache
          /\ cacheLoaded' = IF listed THEN [cacheLoaded EXCEPT ![Own] = TRUE]
                            ELSE cacheLoaded
  /\ UNCHANGED <<pure, doc, given, planMode, allToolNames, activeTools, entered, registry>>
  /\ UNCHANGED execVars
  /\ UNCHANGED StoreVars
  /\ UNCHANGED <<disk, now>>

\* The plan_mode tool: nothing when already in the mode asked for, else
\* togglePlanMode.
PlanModeTool(enable) ==
  /\ IF planMode = enable
     THEN UNCHANGED <<planMode, allToolNames, activeTools, entered>>
     ELSE togglePlanMode
  /\ UNCHANGED <<pure, doc, given, registry, decision>>
  /\ UNCHANGED execVars
  /\ UNCHANGED StoreVars
  /\ UNCHANGED <<disk, cache, cacheLoaded, now>>

\* The /plan command: list({status: "proposed"}); with no proposed plan it
\* toggles, else the menu offers the toggle (a dismissed menu changes
\* nothing; a review goes on as the start of an execution does).
PlanCommand(choice) ==
  /\ cache' = [cache EXCEPT ![Own] = loaded(Own)]
  /\ cacheLoaded' = [cacheLoaded EXCEPT ![Own] = TRUE]
  /\ LET proposed == {i \in PlanIds : loaded(Own)[i] # NoPlan
                                       /\ loaded(Own)[i].status = "proposed"}
     IN IF proposed = {} \/ choice = "toggle"
        THEN togglePlanMode
        ELSE UNCHANGED <<planMode, allToolNames, activeTools, entered>>
  /\ UNCHANGED <<pure, doc, given, registry, decision>>
  /\ UNCHANGED execVars
  /\ UNCHANGED StoreVars
  /\ UNCHANGED <<disk, now>>

\* Another extension, or the user, changes the tools that are active.
ToolSets == {AllTools, AllTools \ {"todo"}, {"read", "bash", "plan_mode"}}
SetActiveTools(S) ==
  /\ S # activeTools
  /\ activeTools' = S
  /\ UNCHANGED <<pure, doc, given, planMode, allToolNames, entered, registry, decision>>
  /\ UNCHANGED execVars
  /\ UNCHANGED StoreVars
  /\ UNCHANGED <<disk, cache, cacheLoaded, now>>

\* The hook: a directory with one plan, approved or executing.
InitHook ==
  /\ \E st \in {"approved", "executing"} :
       disk = [i \in PlanIds |-> IF i = "P1" THEN serializePlan(MkPlan(st, 2, 0))
                                 ELSE NoFile]
  /\ used = {"P1"}
  /\ cacheLoaded = [s \in Stores |-> FALSE]
  /\ cache = [s \in Stores |-> EmptyCache]
  /\ tmps = [x \in PlanIds \X Times |-> NoFile]
  /\ task = [s \in Stores |-> Idle]
  /\ last = NoCall
  /\ now = 0
  /\ ops = 0
  /\ invalidated = [s \in Stores |-> FALSE]
  /\ invs = 0
  /\ ExecAtRest
  /\ AuxAtRest

NextHook ==
  \/ \E r \in Registrations : Register(r)
  \/ \E toolName \in CalledTools, command \in Commands \cup {NoCommand},
        guardedToolsList \in GuardedConfigs :
       ToolCall(toolName, command, guardedToolsList)
  \/ \E enable \in BOOLEAN : PlanModeTool(enable)

SpecHook == InitHook /\ [][NextHook]_vars

\* The modes: a directory with an approved plan and perhaps a proposed one.
InitMode ==
  /\ \E e \in {NoFile, serializePlan(MkPlan("proposed", 1, 0))} :
       disk = [i \in PlanIds |-> IF i = "P1" THEN serializePlan(MkPlan("approved", 2, 0))
                                 ELSE e]
  /\ timeout = 0
  /\ used = PlanIds
  /\ cacheLoaded = [s \in Stores |-> FALSE]
  /\ cache = [s \in Stores |-> EmptyCache]
  /\ tmps = [x \in PlanIds \X Times |-> NoFile]
  /\ task = [s \in Stores |-> Idle]
  /\ last = NoCall
  /\ now = 0
  /\ ops = 0
  /\ invalidated = [s \in Stores |-> FALSE]
  /\ invs = 0
  /\ executionState = NoExec
  /\ log = [i \in PlanIds |-> NoLog]
  /\ starts = [r \in Requesters |-> StartIdle]
  /\ sess = SessIdle
  /\ lastx = NoRequest
  /\ marked = {}
  /\ xops = NoCounts
  /\ readOut = NoRead
  /\ AuxAtRest

NextMode ==
  \/ \E enable \in BOOLEAN : PlanModeTool(enable)
  \/ \E choice \in {"toggle", "dismiss"} : PlanCommand(choice)
  \/ \E S \in ToolSets : SetActiveTools(S)
  \/ \E id \in PlanIds, toolsOk \in BOOLEAN : StartExecution("tool", id, toolsOk)
  \/ StartPreflight("tool")
  \/ StartMark("tool")
  \/ StartScripts("tool")
  \/ StartFinish("tool")
  \/ \E persisted \in {{}, {TRUE}, {FALSE}} : SessionStartWith(persisted)
  \/ \E id \in PlanIds : SessionMark(id)
  \/ Tick

SpecMode == InitMode /\ [][NextMode]_vars

\* ------------------------------------------------- starts from two processes
\* Two processes on one plan directory, each with the extension activated and
\* its own PlanStore (store s is the store of process s).  Each is asked once
\* to start an execution; the store calls of the two run step by step.
startsOf(s) == IF s = Own THEN "start" ELSE "other"

\* startExecution(planId) in process s: the slot of a process that has not
\* started anything is free; then "await s.get(planId)".
ProcStart(s, id) ==
  /\ CanStart(s)
  /\ xops[startsOf(s)] = 0
  /\ xops' = Count(startsOf(s))
  /\ ops' = ops + 1
  /\ task' = [task EXCEPT ![s] =
                [Begin(s, "start", id) EXCEPT !.pc = "got", !.first = got(s, id),
                                             !.kind = "markExecuting"]]
  /\ cache' = [cache EXCEPT ![s] = afterGet(s, id)]
  /\ cacheLoaded' = [cacheLoaded EXCEPT ![s] = @ \/ cache[s][id] = NoPlan]
  /\ invalidated' = [invalidated EXCEPT ![s] = FALSE]
  /\ UNCHANGED <<disk, tmps, last, now, used, invs>>
  /\ UNCHANGED <<executionState, log, starts, sess, lastx, marked, timeout, readOut>>
  /\ UNCHANGED auxVars

\* startExecution: "if (!plan || plan.status !== 'approved') return"; then
\* executePlan: validatePreflight(plan, plan.version, availableTools).
ProcPreflight(s, toolsOk) ==
  /\ task[s].op = "start"
  /\ task[s].pc = "got"
  /\ LET plan == task[s].first IN
     IF plan = NoPlan \/ plan.status # "approved" THEN
       /\ last' = Return(s, task[s], "not approved")
       /\ task' = [task EXCEPT ![s] = Idle]
     ELSE IF ~validatePreflight(plan, plan.version, toolsOk) THEN
       /\ last' = Return(s, task[s], "preflight failed")
       /\ task' = [task EXCEPT ![s] = Idle]
     ELSE
       /\ task' = [task EXCEPT ![s].pc = "mark"]
       /\ UNCHANGED last
  /\ UNCHANGED <<disk, tmps, cache, cacheLoaded, now, ops, used, invalidated, invs>>
  /\ UNCHANGED execVars
  /\ UNCHANGED auxVars

\* executePlan: "await store.markExecuting(plan.id)" -- update() begins: the
\* first readFile + parsePlan and the updater; its further steps are those of
\* update, and a throw of any of them ends the start.
ProcMark(s) ==
  /\ task[s].op = "start"
  /\ task[s].pc = "mark"
  /\ LET content == readCurrent(s, task[s].id) IN
       IF content = NoFile THEN
         /\ last' = Return(s, task[s], "NotFound")
         /\ task' = [task EXCEPT ![s] = Idle]
       ELSE IF parseThrows(content) THEN
         /\ last' = Return(s, task[s], "ParseError")
         /\ task' = [task EXCEPT ![s] = Idle]
       ELSE IF ~updaterAccepts("markExecuting", parsePlan(content).status) THEN
         /\ last' = Return(s, task[s], "InvalidTransition")
         /\ task' = [task EXCEPT ![s] = Idle]
       ELSE
         /\ task' = [task EXCEPT ![s].pc = "tmp", ![s].first = parsePlan(content),
                                 ![s].t = now,
                                 ![s].plan = applyUpdate("markExecuting",
                                                         parsePlan(content), now)]
         /\ UNCHANGED last
  /\ UNCHANGED <<disk, tmps, cache, cacheLoaded, now, ops, used, invalidated, invs>>
  /\ UNCHANGED execVars
  /\ UNCHANGED auxVars

\* Plans P1 and P2 approved; each process may have listed the plans before.
InitTwo ==
  /\ disk = [i \in PlanIds |-> serializePlan(MkPlan("approved", 2, 0))]
  /\ used = PlanIds
  /\ \E warm \in SUBSET Stores :
       /\ cacheLoaded = [s \in Stores |-> s \in warm]
       /\ cache = [s \in Stores |->
                     IF s \in warm THEN [i \in PlanIds |-> MkPlan("approved", 2, 0)]
                     ELSE EmptyCache]
  /\ tmps = [x \in PlanIds \X Times |-> NoFile]
  /\ task = [s \in Stores |-> Idle]
  /\ last = NoCall
  /\ now = 0
  /\ ops = 0
  /\ invalidated = [s \in Stores |-> FALSE]
  /\ invs = 0
  /\ ExecAtRest
  /\ AuxAtRest

NextTwo ==
  \/ \E s \in Stores, id \in PlanIds : ProcStart(s, id)
  \/ \E s \in Stores, toolsOk \in BOOLEAN : ProcPreflight(s, toolsOk)
  \/ \E s \in Stores : ProcMark(s)
  \/ \E s \in Stores : UpdateWriteTmp(s)
  \/ \E s \in Stores : UpdateCheck(s)
  \/ \E s \in Stores : UpdateUnlink(s)
  \/ \E s \in Stores : UpdateRename(s)
  \/ Tick

SpecTwo == InitTwo /\ [][NextTwo]_vars

\* ------------------------------------------------------------------- Clone
\* viewPlanDetail offers Clone for every status but proposed, approved and
\* executing.
clonable(status) == status \notin {"proposed", "approved", "executing"}

\* /plans -> Clone of plan orig: list() (loadCache), the menu for the plan's
\* status, then store.create({title, steps, context, ...}) up to the opening
\* of the file under the id drawn.
CloneOpen(orig, id) ==
  /\ CanStart(Own)
  /\ loaded(Own)[orig] # NoPlan
  /\ clonable(loaded(Own)[orig].status)
  /\ cache' = [cache EXCEPT ![Own] = loaded(Own)]
  /\ cacheLoaded' = [cacheLoaded EXCEPT ![Own] = TRUE]
  /\ disk' = [disk EXCEPT ![id] = Truncated]
  /\ task' = [Disturbed(task) EXCEPT ![Own] =
                [Begin(Own, "create", id) EXCEPT !.pc = "open", !.stable = FALSE,
                                                !.first = loaded(Own)[orig],
                                                !.plan = MkPlan("proposed", 1, now)]]
  /\ used' = used \cup {id}
  /\ ops' = ops + 1
  /\ invalidated' = [invalidated EXCEPT ![Own] = FALSE]
  /\ UNCHANGED <<tmps, last, now, invs>>
  /\ UNCHANGED execVars
  /\ UNCHANGED auxVars

\* A directory with plan P1 in a status that offers Clone and perhaps a
\* second plan P2; the other process reads while this one clones.
InitClone ==
  /\ \E st \in {"failed", "stalled", "rejected", "completed", "cancelled"},
        e \in {NoFile, serializePlan(MkPlan("proposed", 1, 0)),
               serializePlan(MkPlan("completed", 4, 0))} :
       /\ disk = [i \in PlanIds |-> IF i = "P1" THEN serializePlan(MkPlan(st, 3, 0)) ELSE e]
       /\ used = IF e = NoFile THEN {"P1"} ELSE PlanIds
  /\ cacheLoaded = [s \in Stores |-> FALSE]
  /\ cache = [s \in Stores |-> EmptyCache]
  /\ tmps = [x \in PlanIds \X Times |-> NoFile]
  /\ task = [s \in Stores |-> Idle]
  /\ last = NoCall
  /\ now = 0
  /\ ops = 0
  /\ invalidated = [s \in Stores |-> FALSE]
  /\ invs = 0
  /\ ExecAtRest
  /\ AuxAtRest

NextClone ==
  \/ \E orig \in PlanIds, id \in PlanIds : CloneOpen(orig, id)
  \/ CreateWrite(Own)
  \/ \E id \in PlanIds : Get(Other, id)
  \/ List(Other)
  \/ \E id \in PlanIds : LoadReadFile(Other, id)
  \/ Tick

SpecClone == InitClone /\ [][NextClone]_vars

\* ------------------------------------------- finishExecution, step by step
\* The updater finishExecution hands to the store for a terminal report.
finishCall(action, summary) ==
  [Call(IF action = "plan_complete" THEN "markCompleted" ELSE "markFailed")
     EXCEPT !.summary = summary]

\* plan_complete / plan_failed -> finishExecution: state.done = true,
\* checkpoint.logEnd, then "await state.store.markCompleted / markFailed"
\* up to the first read of update(); the further steps are those of update,
\* and a throw of any of them is caught and passed over.
FinishBegin(action, summary) ==
  /\ executionState # NoExec
  /\ CanStart(Own)
  /\ executionState' = [executionState EXCEPT !.done = TRUE,
                                               !.ok = (action = "plan_complete")]
  /\ log' = [log EXCEPT ![executionState.planId] =
               appendFileSync(@, EndEntry(executionState.planId,
                                          IF action = "plan_complete" THEN "completed"
                                                                      ELSE "failed",
                                          summary, now))]
  /\ LET id == executionState.planId
         rec == [Begin(Own, "update", id) EXCEPT !.kind = finishCall(action, summary).kind]
         content == readCurrent(Own, id)
     IN IF content = NoFile THEN
          /\ last' = Return(Own, rec, "NotFound")
          /\ UNCHANGED task
        ELSE IF parseThrows(content) THEN
          /\ last' = Return(Own, rec, "ParseError")
          /\ UNCHANGED task
        ELSE
          /\ task' = [task EXCEPT ![Own] =
                        [rec EXCEPT !.pc = "tmp", !.first = parsePlan(content), !.t = now,
                                    !.plan = applyUpdater(finishCall(action, summary),
                                                          parsePlan(content), now)]]
          /\ UNCHANGED last
  /\ ops' = ops + 1
  /\ invalidated' = [invalidated EXCEPT ![Own] = FALSE]
  /\ UNCHANGED <<disk, tmps, cache, cacheLoaded, now, used, invs>>
  /\ UNCHANGED <<starts, sess, lastx, marked, timeout, xops, readOut>>
  /\ UNCHANGED auxVars

\* finishExecution has returned.
finished == executionState # NoExec /\ executionState.done /\ task[Own] = Idle

\* Plan P1 is executing, started by this process (its checkpoint file holds
\* the start record); another process has the directory open too.
InitFinish ==
  /\ disk = [i \in PlanIds |->
               IF i = "P1" THEN serializePlan([MkPlan("executing", 3, 0)
                                                 EXCEPT !.execution_started_at = {0}])
               ELSE NoFile]
  /\ used = {"P1"}
  /\ \E warm \in BOOLEAN :
       /\ cacheLoaded = [s \in Stores |-> s = Other /\ warm]
       /\ cache = [s \in Stores |->
                     IF s = Other /\ warm THEN [EmptyCache EXCEPT !["P1"] = parsePlan(disk["P1"])]
                     ELSE EmptyCache]
  /\ tmps = [x \in PlanIds \X Times |-> NoFile]
  /\ task = [s \in Stores |-> Idle]
  /\ last = NoCall
  /\ now = 0
  /\ ops = 0
  /\ invalidated = [s \in Stores |-> FALSE]
  /\ invs = 0
  /\ executionState = [planId |-> "P1", done |-> FALSE, ok |-> FALSE]
  /\ log = [i \in PlanIds |-> IF i = "P1" THEN appendFileSync(NoLog, StartEntry(i, 0))
                              ELSE NoLog]
  /\ starts = [r \in Requesters |-> StartIdle]
  /\ sess = SessIdle
  /\ lastx = NoRequest
  /\ marked = {"P1"}
  /\ timeout = 0
  /\ xops = NoCounts
  /\ readOut = NoRead
  /\ AuxAtRest

\* The other process begins its writes while the execution is under way.
NextFinish ==
  \/ \E action \in {"plan_complete", "plan_failed"}, summary \in Summaries :
       FinishBegin(action, summary)
  \/ \E kind \in {"cancel", "markCompleted"} :
       ~finished /\ UpdateRead(Other, "P1", kind)
  \/ \E s \in Stores : UpdateWriteTmp(s)
  \/ \E s \in Stores : UpdateCheck(s)
  \/ \E s \in Stores : UpdateUnlink(s)
  \/ \E s \in Stores : UpdateRename(s)
  \/ AgentEnd
  \/ Tick

SpecFinish == InitFinish /\ [][NextFinish]_vars

\* ------------------------------------------------- a retried plan, restarted
\* The checkpoint file an execution of plan id leaves that reported its first
\* step and then failed: start record, step record, end record.
failedRunLog(id) ==
  appendFileSync(
    appendFileSync(appendFileSync(NoLog, StartEntry(id, 0)),
                   StepEntry(0, id, "step_complete", "success", "s1", 0)),
    EndEntry(id, "failed", "s1", 0))

\* Plan P1 has been executed (first step reported, then plan_failed) and
\* retried by the user: approved again, version 7 (create, approve,
\* markExecuting, scripts, step report, markFailed, retry), its checkpoint
\* file as the execution left it.  The process has been started anew.
InitCount ==
  /\ disk = [i \in PlanIds |->
               IF i = "P1" THEN serializePlan(MkPlan("approved", 7, 0)) ELSE NoFile]
  /\ log = [i \in PlanIds |-> IF i = "P1" THEN failedRunLog(i) ELSE NoLog]
  /\ timeout = 0
  /\ used = {"P1"}
  /\ cacheLoaded = [s \in Stores |-> FALSE]
  /\ cache = [s \in Stores |-> EmptyCache]
  /\ tmps = [x \in PlanIds \X Times |-> NoFile]
  /\ task = [s \in Stores |-> Idle]
  /\ last = NoCall
  /\ now = 0
  /\ ops = 0
  /\ invalidated = [s \in Stores |-> FALSE]
  /\ invs = 0
  /\ executionState = NoExec
  /\ starts = [r \in Requesters |-> StartIdle]
  /\ sess = SessIdle
  /\ lastx = NoRequest
  /\ marked = {}
  /\ xops = NoCounts
  /\ readOut = NoRead
  /\ AuxAtRest

NextCount ==
  \/ \E toolsOk \in BOOLEAN : StartExecution("tool", "P1", toolsOk)
  \/ StartPreflight("tool")
  \/ StartMark("tool")
  \/ StartScripts("tool")
  \/ StartFinish("tool")
  \/ \E action \in ReportActions, step \in 1 .. NSteps, summary \in Summaries :
       Report(action, step, summary)
  \/ AgentEnd
  \/ ReadLog("P1")
  \/ Tick

SpecCount == InitCount /\ [][NextCount]_vars

\* ================================================================== claims
\* The plan in file id, or NoPlan when there is no readable plan file.
DiskPlan(id) ==
  IF disk[id] = NoFile \/ parseThrows(disk[id]) THEN NoPlan ELSE parsePlan(disk[id])

\* A call of store s returns (or throws) in this step.
Returns(s) == last'.n = last.n + 1 /\ last'.s = s

\* Store s starts update(id, <mutator kind>) in this step.
StartsUpdate(s, id, kind) ==
  /\ ops' = ops + 1
  /\ task[s] = Idle
  /\ \/ task'[s].op = "update" /\ task'[s].id = id /\ task'[s].kind = kind
     \/ /\ task'[s] = Idle
        /\ Returns(s)
        /\ last'.op = "update" /\ last'.id = id /\ last'.kind = kind

\* update() of store s renames its temp file over the plan file in this step.
Renames(s) == task[s].pc = "rename" /\ Returns(s) /\ last'.res = "ok"

\* C1 -- for any interleaving of update calls of different stores on one
\* plan, a call replaces the on-disk document only if the on-disk version at
\* the moment of its rename still equals the version it read at its start.
C1_RenameOnlyOverVersionRead ==
  [][\A s \in Stores :
       (Renames(s) /\ DiskPlan(task[s].id) # NoPlan)
         => DiskPlan(task[s].id).version = task[s].first.version]_vars

\* ---------------------------------------------------------------------- C2
\* The transitions whose mutator tests the status it finds.
CheckedKinds == {"approve", "reject", "markExecuting"}

\* Store s holds a view of plan id from before another store applied the
\* transition `kind` to it: the view would accept the transition, the file
\* has a later version and the status the transition produces.
StaleRepeat(s, id, kind) ==
  /\ cache[s][id] # NoPlan
  /\ DiskPlan(id) # NoPlan
  /\ updaterAccepts(kind, cache[s][id].status)
  /\ DiskPlan(id).version > cache[s][id].version
  /\ DiskPlan(id).status = updaterStatus(kind, cache[s][id].status)
  /\ DiskPlan(id).status # cache[s][id].status

C3_ReadsSeeCompleteDocument ==
  [][\A s \in Stores, id \in PlanIds :
       (\/ LoadReadFile(s, id)
        \/ \E kind \in Kinds : UpdateRead(s, id, kind)
        \/ task[s].id = id /\ UpdateCheck(s))
         => disk[id] # Truncated]_vars

\* ---------------------------------------------------------------------- C4
\* C4 -- whenever update returns an error, no temp file created by that call
\* remains.
C4_NoTempFileAfterError ==
  [][\A s \in Stores :
       (Returns(s) /\ last'.op = "update" /\ last'.res # "ok"
          /\ task[s].pc \in {"check", "unlink", "rename"})
         => tmps'[<<task[s].id, task[s].t>>] = NoFile]_vars

\* ---------------------------------------------------------------------- C5
\* C5 -- with calls issued one after another: a successful update leaves the
\* on-disk version exactly one above the version before the call and sets
\* updated_at to the call's time; a failing update leaves the on-disk
\* document as it was; no other step of an update touches the plan file.
C5_VersionPlusOne ==
  [][\A s \in Stores, id \in PlanIds :
       /\ (task'[s].op = "update" \/ (task[s].op = "update" /\ ~Renames(s)))
            => disk' = disk
       /\ (Returns(s) /\ last'.op = "update" /\ last'.res # "ok") => disk' = disk
       /\ (Renames(s) /\ task[s].id = id) =>
            /\ DiskPlan(id) # NoPlan
            /\ DiskPlan(id)' # NoPlan
            /\ DiskPlan(id)'.version = DiskPlan(id).version + 1
            /\ DiskPlan(id)'.updated_at = task[s].t
            /\ \A i \in PlanIds \ {id} : disk'[i] = disk[i]]_vars

\* C5 witness: two updates in a row have taken a plan to version 3, the
\* second one at a later clock value than the plan's creation.
C5_Witness ==
  /\ last.op = "update" /\ last.res = "ok" /\ last.n = 2
  /\ DiskPlan(last.id) # NoPlan
  /\ DiskPlan(last.id).version = 3
  /\ DiskPlan(last.id).updated_at = 1

\* ---------------------------------------------------------------------- C6
\* The transition table of the plan lifecycle.
Lifecycle ==
  {<<"proposed", "approved">>, <<"proposed", "rejected">>, <<"proposed", "cancelled">>,
   <<"approved", "executing">>, <<"approved", "cancelled">>,
   <<"executing", "completed">>, <<"executing", "failed">>, <<"executing", "stalled">>,
   <<"stalled", "approved">>, <<"stalled", "failed">>, <<"stalled", "cancelled">>,
   <<"failed", "approved">>}

\* C6 -- every change of a plan's on-disk status is one of the transitions
\* of the lifecycle table.
C6_OnlyLifecycleTransitions ==
  [][\A id \in PlanIds :
       (DiskPlan(id) # NoPlan /\ DiskPlan(id)' # NoPlan
          /\ DiskPlan(id)'.status # DiskPlan(id).status)
         => <<DiskPlan(id).status, DiskPlan(id)'.status>> \in Lifecycle]_vars

\* ---------------------------------------------------------------------- C7
\* C7 -- once a plan's status is rejected, cancelled or completed, no
\* operation changes its status again.
C7_TerminalStatusIsFinal ==
  [][\A id \in PlanIds :
       (DiskPlan(id) # NoPlan /\ DiskPlan(id)' # NoPlan
          /\ DiskPlan(id).status \in {"rejected", "cancelled", "completed"})
         => DiskPlan(id)'.status = DiskPlan(id).status]_vars

\* ---------------------------------------------------------------------- C8
\* The on-disk status each checked transition requires.
Required(kind) == IF kind = "markExecuting" THEN "approved" ELSE "proposed"

\* C8 -- approve and reject fail unless the on-disk status is proposed,
\* markExecuting fails unless it is approved; the failed call leaves the
\* on-disk document (and everything else on disk) unchanged, and a call that
\* goes on has read the required status.
C8_StatusPreconditions ==
  [][\A s \in Stores, id \in PlanIds, kind \in CheckedKinds :
       StartsUpdate(s, id, kind) =>
         IF DiskPlan(id) # NoPlan /\ DiskPlan(id).status # Required(kind)
         THEN /\ Returns(s)
              /\ last'.res = "InvalidTransition"
              /\ disk' = disk /\ tmps' = tmps /\ cache' = cache
         ELSE task'[s].op = "update" => task'[s].first.status = Required(kind)]_vars

\* C8 witness: markExecuting has just been refused on a plan whose on-disk
\* status is not approved.
C8_Witness ==
  /\ last.op = "update" /\ last.kind = "markExecuting"
  /\ last.res = "InvalidTransition"
  /\ DiskPlan(last.id) # NoPlan
  /\ DiskPlan(last.id).status = "proposed"

\* ---------------------------------------------------------------------- C9
\* C9 -- delete never removes the file of a plan whose on-disk status is
\* executing.
C9_ExecutingPlanNotDeleted ==
  [][\A id \in PlanIds :
       (DiskPlan(id) # NoPlan /\ DiskPlan(id).status = "executing")
         => disk'[id] # NoFile]_vars

\* --------------------------------------------------------------------- C10
\* The plans on disk, as list() presents them.
DiskList == {<<i, DiskPlan(i)>> : i \in {j \in PlanIds : DiskPlan(j) # NoPlan}}

\* C10 -- the first get or list of a store after its invalidateCache(),
\* during which no file changes, returns exactly what is on disk.
C10_FreshReadAfterInvalidate ==
  [][\A s \in Stores :
       (/\ Returns(s)
        /\ last'.op \in {"get", "list"}
        /\ disk' = disk
        /\ IF task[s] = Idle THEN invalidated[s]
                             ELSE task[s].fresh /\ task[s].stable)
         => IF last'.op = "get"
            THEN \A id \in PlanIds :
                   last'.id = id => getResult(s, id)' = DiskPlan(id)
            ELSE listResult(s)' = DiskList]_vars

\* --------------------------------------------------------------------- C11
\* The plans this process has marked executing and that are executing on disk.
ExecutingHere ==
  {id \in marked : DiskPlan(id) # NoPlan /\ DiskPlan(id).status = "executing"}

\* C11 -- whatever start requests one process handles, and however their
\* steps overlap, at most one plan it started is in status executing.
C11_AtMostOneExecuting == Cardinality(ExecutingHere) <= 1

\* --------------------------------------------------------------------- C12
\* C12 -- a start request that finds the slot occupied (an execution started,
\* no plan_complete / plan_failed reported yet) returns with the error and
\* changes nothing: no plan file, no checkpoint line, the same state in the
\* slot, no start under way.
C12_BusyStartChangesNothing ==
  [][\A r \in Requesters, id \in PlanIds, toolsOk \in BOOLEAN :
       (/\ executionState # NoExec
        /\ ~executionState.done
        /\ StartExecution(r, id, toolsOk))
         => /\ lastx'.res = "busy"
            /\ disk' = disk
            /\ log' = log
            /\ executionState' = executionState
            /\ starts' = starts]_vars

\* A start request was refused while an execution holds the slot.
C12_Witness ==
  /\ lastx.res = "busy"
  /\ executionState # NoExec
  /\ ~executionState.done

\* --------------------------------------------------------------------- C13
\* C13 -- a start that fails preflight validation or whose markExecuting
\* throws ends there: up to and including the failing step the plan files,
\* the checkpoint files and the slot are unchanged, and a request whose
\* tools are not all available never gets past the validation.
C13_FailedStartChangesNothing ==
  [][\A r \in Requesters :
       /\ ((\/ \E id \in PlanIds, toolsOk \in BOOLEAN : StartExecution(r, id, toolsOk)
            \/ StartPreflight(r)
            \/ StartMark(r) /\ starts'[r] = StartIdle)
             => /\ disk' = disk
                /\ log' = log
                /\ executionState' = executionState)
       /\ (~starts'[r].toolsOk => starts'[r].pc \in {"idle", "got"})]_vars

\* A start was given up because markExecuting threw, with the slot empty.
C13_Witness ==
  /\ lastx.res = "mark failed"
  /\ executionState = NoExec

\* --------------------------------------------------------------------- C14
\* C14 -- once a terminal report of an execution has been processed, a further
\* plan_complete / plan_failed for it changes no plan file (status,
\* result_summary) and appends no further execution_end line.
C14_SecondTerminalReportIgnored ==
  [][\A action \in {"plan_complete", "plan_failed"}, step \in 1 .. NSteps,
        summary \in Summaries :
       (/\ executionState # NoExec
        /\ executionState.done
        /\ Report(action, step, summary))
         => disk' = disk /\ log' = log]_vars

\* --------------------------------------------------------------------- C15
\* C15 -- with no execution started, or after its terminal report, a
\* step_complete / step_failed returns the error, appends no checkpoint
\* record and writes no plan file.
C15_StepReportsOnlyWhileActive ==
  [][\A action \in {"step_complete", "step_failed"}, step \in 1 .. NSteps,
        summary \in Summaries :
       (/\ executionState = NoExec \/ executionState.done
        /\ Report(action, step, summary))
         => /\ lastx'.res = "error"
            /\ disk' = disk
            /\ log' = log]_vars

\* --------------------------------------------------------------------- C16
\* The scripts of plan p with entry step reported as status st.
scriptsShow(p, step, st, summary) ==
  /\ p # NoPlan
  /\ p.scripts # {}
  /\ \A sc \in p.scripts :
       /\ sc[step].status = st
       /\ (IF st = "success" THEN sc[step].summary ELSE sc[step].error) = {summary}

\* C16 -- during an active execution, after step_complete (step_failed) for
\* step i a read of the plan shows scripts entry i with status success and the
\* reported summary (failed and the reported error), the other entries as
\* they were.
C16_StepReportShowsInScripts ==
  [][\A id \in PlanIds, action \in {"step_complete", "step_failed"},
        step \in 1 .. NSteps, summary \in Summaries :
       (/\ executionState # NoExec
        /\ ~executionState.done
        /\ executionState.planId = id
        /\ Report(action, step, summary))
         => /\ scriptsShow(got(Own, id)', step,
                           IF action = "step_complete" THEN "success" ELSE "failed",
                           summary)
            /\ \A j \in (1 .. NSteps) \ {step} :
                 \A before \in got(Own, id).scripts, after \in got(Own, id)'.scripts :
                   after[j] = before[j]]_vars

\* --------------------------------------------------------------------- C17
\* Plan id is executing on disk and started more than the timeout ago.
overdue(id) ==
  /\ DiskPlan(id) # NoPlan
  /\ DiskPlan(id).status = "executing"
  /\ \E startedAt \in DiskPlan(id).execution_started_at : now - startedAt > timeout

\* C17 -- session_start sets to stalled exactly the plans that are executing
\* on disk and started more than executor_timeout_minutes ago: it picks those
\* plans, a plan becomes stalled only from that condition, and marking one
\* plan leaves every other plan file as it is.
C17_StalledIffOverdue ==
  [][\A id \in PlanIds :
       /\ SessionStart => (id \in sess'.todo <=> overdue(id))
       /\ (/\ DiskPlan(id) # NoPlan /\ DiskPlan(id).status # "stalled"
           /\ DiskPlan(id)' # NoPlan /\ DiskPlan(id)'.status = "stalled")
            => overdue(id)
       /\ SessionMark(id) => \A j \in PlanIds \ {id} : disk'[j] = disk[j]]_vars

\* --------------------------------------------------------------------- C18
\* C18 -- a plan that is failed or stalled leaves that status only through
\* an operation the user chooses in /plans (Retry, Mark as Failed, Cancel);
\* no report, no session_start, no agent_end of this process changes it.
C18_FailedStalledLeftOnlyByUser ==
  [][\A id \in PlanIds :
       (/\ DiskPlan(id) # NoPlan
        /\ DiskPlan(id).status \in {"failed", "stalled"}
        /\ ~ \E kind \in {"markCompleted", "cancel"} : OtherUpdate(id, kind)
        /\ \/ DiskPlan(id)' = NoPlan
           \/ DiskPlan(id)'.status # DiskPlan(id).status)
         => \E action \in {"Retry", "Mark as Failed", "Cancel"} :
              UserAction(id, action)]_vars

\* --------------------------------------------------------------------- C19
\* File before is a prefix of file after, extended by at most / exactly one line.
grownBy(before, after, n) ==
  /\ Len(after.lines) = Len(before.lines) + n
  /\ SubSeq(after.lines, 1, Len(before.lines)) = before.lines

\* C19 -- every logStart / logStep / logEnd appends exactly one line at the
\* end of the plan's checkpoint file, and no step ever removes, changes or
\* reorders a line already written (a retry and re-execution included).
C19_CheckpointAppendOnly ==
  [][/\ \A id \in PlanIds : log'[id] = log[id] \/ grownBy(log[id], log'[id], 1)
     /\ \A r \in Requesters :
          StartScripts(r) => grownBy(log[starts[r].id], log'[starts[r].id], 1)
     /\ \A action \in ReportActions, step \in 1 .. NSteps, summary \in Summaries :
          (executionState # NoExec /\ Report(action, step, summary))
            => grownBy(log[executionState.planId], log'[executionState.planId], 1)]_vars

\* The checkpoint file of P1 starts with the start line of an earlier
\* execution and ends with the start line of its re-execution after a retry.
C19_Witness ==
  /\ Len(log["P1"].lines) >= 2
  /\ log["P1"].lines[1] = stringify(StartEntry("P1", 0))
  /\ \E t \in 0 .. MaxNow :
       log["P1"].lines[Len(log["P1"].lines)] = stringify(StartEntry("P1", t))
  /\ DiskPlan("P1") # NoPlan
  /\ DiskPlan("P1").status = "executing"
  /\ xops.user = 1

\* --------------------------------------------------------------------- C20
\* A line that is a well-formed step record: JSON with a step field.
isStepRecord(line) == "json" \in DOMAIN line /\ "step" \in DOMAIN line.json

\* The step records of a file, in file order.
stepRecords(file) ==
  LET kept == SelectSeq(file.lines, isStepRecord)
  IN [k \in 1 .. Len(kept) |-> kept[k].json]

\* C20 -- readCheckpoint returns, in file order, exactly the step records of
\* the plan's file: start / end records, malformed lines and blank lines are
\* each passed over, a missing file gives the empty sequence; and
\* countCompletedSteps is the number of those records with status success.
C20_ReadCheckpointStepRecords ==
  [][\A id \in PlanIds :
       ReadLog(id)
         => /\ readOut'.steps = (IF log[id].exists THEN stepRecords(log[id]) ELSE <<>>)
            /\ readOut'.count =
                 Cardinality({k \in 1 .. Len(readOut'.steps) :
                                readOut'.steps[k].status = "success"})]_vars

\* A file with a malformed line between two step records has been read: both
\* records came back, one of them counted as completed.
C20_Witness ==
  /\ readOut.of = "P1"
  /\ Len(log["P1"].lines) = 3
  /\ log["P1"].lines[2] = Malformed
  /\ Len(readOut.steps) = 2
  /\ readOut.steps[1].status = "success"
  /\ readOut.steps[2].status = "failed"
  /\ readOut.count = 1

\* --------------------------------------------------------------------- C21
\* C21 -- validatePreflight returns ok exactly when the status is approved,
\* the version is the expected one and every required tool is available;
\* otherwise its error is that of the first failing check in the order
\* status, version, tools, and the tools error lists every missing entry
\* of tools_required.
C21_PreflightOkAndFirstError ==
  [][pure'.fn = "validatePreflight" =>
       LET plan == pure'.plan
           out == pure'.out
           statusOk == plan.status = "approved"
           versionOk == plan.version = pure'.expectedVersion
           lacking == {t \in Range(plan.tools_required) : t \notin Range(pure'.availableTools)}
       IN /\ out.ok <=> (statusOk /\ versionOk /\ lacking = {})
          /\ ~out.ok =>
               /\ out.error.check = (IF ~statusOk THEN "status"
                                     ELSE IF ~versionOk THEN "version" ELSE "tools")
               /\ out.error.check = "tools" => Range(out.error.missing) = lacking]_vars

\* An approved plan of the wrong version that also lacks a tool was refused
\* for its version.
C21_Witness ==
  /\ pure.fn = "validatePreflight"
  /\ pure.plan.status = "approved"
  /\ pure.plan.version # pure.expectedVersion
  /\ \E t \in Range(pure.plan.tools_required) : t \notin Range(pure.availableTools)
  /\ ~pure.out.ok
  /\ pure.out.error.check = "version"

\* --------------------------------------------------------------------- C22
\* Plan p started more than the timeout before nowMs.
exceeds(p, timeoutMinutes, nowMs) ==
  \E startedAt \in p.execution_started_at : nowMs - startedAt > timeoutMinutes * 60000

\* C22 -- findStalledPlans returns exactly the input plans that have an
\* execution_started_at more than timeoutMinutes before now, in input order;
\* a plan whose elapsed time equals the timeout, or without
\* execution_started_at, is not returned.
C22_StalledExactlyOverTimeout ==
  [][pure'.fn = "findStalledPlans" =>
       LET plans == pure'.plans
           out == pure'.out
           keep == {k \in 1 .. Len(plans) :
                      exceeds(plans[k], pure'.timeoutMinutes, pure'.nowMs)}
       IN /\ Len(out) = Cardinality(keep)
          /\ \A k \in keep : out[Cardinality({j \in keep : j <= k})] = plans[k]
          /\ \A j \in 1 .. Len(out) :
               /\ out[j].execution_started_at # {}
               /\ \A startedAt \in out[j].execution_started_at :
                    pure'.nowMs - startedAt # pure'.timeoutMinutes * 60000]_vars

\* Of two plans started one minute and one minute less 1 ms ago, with a
\* timeout of one minute, none is returned; a millisecond later the first is.
C22_Witness ==
  /\ pure.fn = "findStalledPlans"
  /\ pure.timeoutMinutes = 1
  /\ pure.nowMs = 60001
  /\ Len(pure.plans) = 2
  /\ pure.plans[1].execution_started_at = {1}
  /\ pure.plans[2].execution_started_at = {0}
  /\ pure.out = <<pure.plans[2]>>

\* C23: after any sequence of successful store operations on a plan, the
\* steps read back from its file are the steps given to create: the same
\* number, order, descriptions, tools, operations and targets.
C23_StepsSurviveEveryUpdate ==
  doc # NoDoc /\ doc.version > 1 => parseText(doc).steps = given.steps

\* C24: what create writes reads back with the steps and the context of the
\* plan written, and writing what was read gives the same file again.
C24_ParseSerializeRoundTrip ==
  [][doc = NoDoc /\ doc' # NoDoc =>
       /\ parseText(doc').steps = given'.steps
       /\ parseText(doc').context = given'.context
       /\ serializeText(parseText(doc')) = doc']_vars

\* A file of the directory that parsePlan accepts.
wellFormed(id) == disk[id] # NoFile /\ disk[id] # Truncated

\* C25: with a file in the directory that does not parse, list and get
\* return without error, list returns the plans of exactly the files that
\* parse, get finds each of them and finds nothing under the broken file's
\* id, and update on the broken file's id throws and writes nothing.
C25_BrokenFileSkippedAndNotUpdated ==
  [][\A s \in Stores, id \in PlanIds :
       last'.n = last.n + 1 /\ last'.s = s /\ last'.id = id =>
         /\ last'.op = "list" =>
              /\ last'.res = "ok"
              /\ {e[1] : e \in listResult(s)'} = {i \in PlanIds : wellFormed(i)}
         /\ last'.op = "get" =>
              /\ last'.res = "ok"
              /\ (getResult(s, id)' # NoPlan) = wellFormed(id)
         /\ last'.op = "update" /\ disk[id] = Truncated =>
              /\ last'.res = "ParseError"
              /\ disk' = disk
              /\ tmps' = tmps]_vars

\* Store A has listed the directory (P1 found, P2 passed over) and an update
\* of P2 has just failed.
C25_Witness ==
  /\ last.op = "update" /\ last.id = "P2" /\ last.res = "ParseError"
  /\ cacheLoaded["A"] /\ cache["A"]["P1"] # NoPlan /\ cache["A"]["P2"] = NoPlan
  /\ disk["P2"] = Truncated

\* C26: every create makes a plan with status proposed and version 1 under
\* an id that no file of the directory has, so that no plan file is
\* overwritten.
C26_CreateUnderFreshId ==
  [][\A s \in Stores, id \in PlanIds :
       task[s].pc # "open" /\ task'[s].pc = "open" /\ task'[s].id = id =>
         /\ disk[id] = NoFile
         /\ task'[s].plan.status = "proposed"
         /\ task'[s].plan.version = 1]_vars

\* C27: in plan mode a bash command that matches a destructive pattern
\* (rm -rf x, git push, npm install x) is blocked whatever the safety
\* registry holds.
C27_DestructiveBlockedForEveryRegistry ==
  decision.tool = "bash" /\ decision.mode = "plan" /\ isDestructive(decision.command)
    => decision.block

\* C28: in plan mode a bash command goes by the level the registry resolves
\* it to: READ is allowed, WRITE is blocked with a reason that names a WRITE
\* operation, and with no match isSafeBashCommand decides, which blocks
\* whatever matches no safe pattern.
C28_RegistryFirstThenStaticRules ==
  [][decision' # decision /\ decision'.tool = "bash" /\ decision'.mode = "plan" =>
       /\ decision'.level \in resolve(registry, decision'.command)
       /\ decision'.level = "READ" => ~decision'.block
       /\ decision'.level = "WRITE" =>
            decision'.block /\ decision'.reason = "WRITE operation"
       /\ decision'.level = "null" =>
            /\ decision'.block = ~isSafeBashCommand(decision'.command)
            /\ ~matchesSafePattern(decision'.command) => decision'.block]_vars

\* In plan mode a command the registry resolved to READ was allowed, though
\* the static rules alone refuse it.
C28_Witness ==
  /\ decision.tool = "bash" /\ decision.mode = "plan"
  /\ decision.level = "READ" /\ ~decision.block
  /\ ~isSafeBashCommand(decision.command)

\* C29: in plan mode every call of write, edit and todo is blocked; in
\* normal mode no call is blocked (a guarded tool called without an
\* executing plan is logged only).
C29_BlockedToolsOnlyInPlanMode ==
  decision # NoDecision =>
    /\ decision.mode = "plan" /\ decision.tool \in {"write", "edit", "todo"}
         => decision.block
    /\ decision.mode = "normal" => ~decision.block

\* A guarded tool was called in normal mode without an executing plan: it
\* was logged and let through.
C29_Witness ==
  /\ decision # NoDecision
  /\ decision.mode = "normal" /\ decision.tool = "odoo_write"
  /\ decision.logged /\ ~decision.block

\* C30: whenever plan mode is left (plan_mode, /plan, session_start or the
\* start of an execution), the active tools are again those that were active
\* when plan mode was entered, in every cycle.
C30_LeavingRestoresTools ==
  [][planMode /\ ~planMode' => activeTools' = entered]_vars

\* Plan mode was entered with a reduced tool set and was left by the start
\* of an execution, with that set active again.
C30_Witness ==
  /\ ~planMode /\ entered = {"read", "bash", "plan_mode"} /\ activeTools = entered
  /\ allToolNames = {}
  /\ lastx.res = "started"

\* --------------------------------------------------------------------- C31
\* C31 -- every call of a store returns or throws, whatever calls of other
\* stores overlap it: a call in flight is never left waiting (its next step
\* can always be taken) and it comes to its end.
C31_EveryCallReturns ==
  \A s \in Stores : (task[s] # Idle) ~> (task[s] = Idle)

\* Two updates of one plan overlapped and one of them lost: it threw the
\* version conflict and returned.
C31_Witness ==
  /\ last.res = "VersionConflict"
  /\ \A s \in Stores : task[s] = Idle

\* --------------------------------------------------------------------- C32
\* C32 -- of the start requests two processes make for one approved plan at
\* most one succeeds: a request succeeds (its markExecuting replaces the plan
\* file and returns) only while the plan on disk is still approved, i.e. no
\* other request has started the plan already.
C32_AtMostOneStartSucceeds ==
  [][\A s \in Stores :
       (Renames(s) /\ task[s].op = "start" /\ DiskPlan(task[s].id) # NoPlan)
         => DiskPlan(task[s].id).status = "approved"]_vars

\* --------------------------------------------------------------------- C33
\* This step appends an execution_start record to the checkpoint file of id.
logsStart(id) ==
  /\ Len(log'[id].lines) = Len(log[id].lines) + 1
  /\ log'[id].lines[Len(log'[id].lines)] = stringify(StartEntry(id, now))

\* C33 -- a start goes preflight validation, markExecuting, scripts
\* initialisation, logStart in that order: a request marks its plan executing
\* only with a plan that passed the validation, and the execution_start
\* record is appended only once this process has marked the plan executing
\* on disk, in the step that has initialised the scripts.
C33_StartStepsInOrder ==
  [][/\ \A r \in Requesters :
          (StartMark(r) /\ starts'[r].pc = "scripts")
            => /\ starts[r].plan.status = "approved"
               /\ starts[r].toolsOk
               /\ disk[starts[r].id] # disk'[starts[r].id]
               /\ DiskPlan(starts[r].id)'.status = "executing"
     /\ \A id \in PlanIds :
          logsStart(id)
            => /\ id \in marked
               /\ \E r \in Requesters : starts[r].pc = "scripts" /\ starts[r].id = id
               /\ cache'[Own][id].scripts = {pendingScripts}]_vars

\* An execution was started: the plan is executing on disk and its
\* checkpoint file ends with the execution_start record.
C33_Witness ==
  /\ lastx = [op |-> "start", id |-> "P2", res |-> "started"]
  /\ DiskPlan("P2").status = "executing"
  /\ log["P2"].lines = <<stringify(StartEntry("P2", now))>>

C35_CloneCreatesAndLeavesOriginal ==
  [][/\ \A orig \in PlanIds, id \in PlanIds :
          CloneOpen(orig, id)
            => /\ disk[id] = NoFile
               /\ disk'[orig] = disk[orig]
     /\ CreateWrite(Own)
          => /\ DiskPlan(task[Own].id)' = MkPlan("proposed", 1, task[Own].plan.updated_at)
             /\ \A j \in PlanIds \ {task[Own].id} : disk'[j] = disk[j]]_vars

\* --------------------------------------------------------------------- C36
\* C36 -- isSafeBashCommand(cmd) is true exactly when cmd matches no
\* destructive pattern, holds no dangerous redirect and matches a safe
\* pattern: a command that matches a safe and a destructive pattern is
\* refused, and so is one that matches neither list.
C36_SafeIffNoDenyAndAllowed ==
  [][pure'.fn = "isSafeBashCommand" =>
       LET command == pure'.command
           out == pure'.out
       IN /\ out <=> (/\ ~isDestructive(command)
                      /\ ~hasDangerousRedirect(command)
                      /\ matchesSafePattern(command))
          /\ matchesSafePattern(command) /\ isDestructive(command) => ~out
          /\ ~matchesSafePattern(command) /\ ~isDestructive(command) => ~out]_vars

\* A command that starts as a safe one and holds a destructive word was
\* refused.
C36_Witness ==
  /\ pure.fn = "isSafeBashCommand"
  /\ pure.command = <<"cat", "x", "rm">>
  /\ ~pure.out

\* --------------------------------------------------------------------- C37
\* The execution_end records of a checkpoint file, in the order written.
endRecords(file) ==
  SelectSeq(file.lines,
            LAMBDA line : "json" \in DOMAIN line /\ "type" \in DOMAIN line.json
                          /\ line.json.type = "execution_end")

\* C37 -- once an execution has been finished, the last execution_end record
\* of its checkpoint file says completed exactly when the plan is completed on
\* disk, and failed exactly when it is failed, whatever another process wrote
\* to the plan while the execution was under way.
C37_LogAndPlanAgree ==
  finished =>
    LET id == executionState.planId
        ends == endRecords(log[id])
        end == ends[Len(ends)].json
    IN /\ ends # <<>>
       /\ DiskPlan(id) # NoPlan
       /\ end.status = "completed" <=> DiskPlan(id).status = "completed"
       /\ end.status = "failed" <=> DiskPlan(id).status = "failed"

\* --------------------------------------------------------------------- C38
\* C38 -- a start request for an approved plan is turned away as "another
\* plan is already executing" only while the plan named by the execution slot
\* is executing on disk: once that plan has left status executing, by whatever
\* operation, the slot no longer stands in the way.
C38_SlotHeldOnlyWhileExecuting ==
  [][(/\ xops'["start"] = xops["start"] + 1
      /\ lastx'.res = "busy"
      /\ DiskPlan(lastx'.id) # NoPlan
      /\ DiskPlan(lastx'.id).status = "approved")
       => /\ DiskPlan(executionState.planId) # NoPlan
          /\ DiskPlan(executionState.planId).status = "executing"]_vars

\* --------------------------------------------------------------------- C39
\* The step in which the start request of requester r ends in failure: the
\* slot is occupied, the plan is not approved, the preflight fails or
\* markExecuting throws.
FailsStart(r) ==
  \/ starts[r].pc \in {"got", "mark"} /\ starts'[r].pc = "idle"
  \/ /\ starts[r].pc = "idle" /\ starts' = starts
     /\ xops'["start"] = xops["start"] + 1
     /\ lastx'.res = "busy"

\* C39 -- a start request that fails leaves plan mode and the set of active
\* tools as they were: the step in which it fails changes neither.
C39_FailedStartKeepsMode ==
  [][\A r \in Requesters :
       FailsStart(r) => planMode' = planMode /\ activeTools' = activeTools]_vars

\* --------------------------------------------------------------------- C40
\* C40 -- countCompletedSteps of a plan's checkpoint file never exceeds the
\* plan's number of steps, whatever executions, step reports and retries the
\* plan has been through.
C40_CountWithinSteps ==
  \A id \in PlanIds : countCompletedSteps(log[id]) <= NSteps

====
